---- MODULE Spec2Model ----
(***************************************************************************)
(* LLM proxy: the durable variant (worker src/src/index.js + Durable       *)
(* Object src/src/storage.js) and the in-memory variant                    *)
(* (src/unnamed/part_001), modelled as request handlers over their stores. *)
(*                                                                         *)
(* JavaScript values are tagged tuples, objects are functions from key     *)
(* names to values (an absent key reads as undefined), arrays are          *)
(* sequences.  A string is <<"string", b, n>>: the characters b (not       *)
(* ending in '/') followed by n slashes.                                   *)
(***************************************************************************)
EXTENDS Integers, Sequences, FiniteSets, TLC

VARIABLES
  variant,        \* which worker is deployed: "durable", "memory", or "both" (side by side)
  env,            \* the worker's environment bindings
  now,            \* Date.now()
  storage,        \* durable: state.storage of the LLMProxyStorage object (keys config, logs)
  memoryStorage,  \* in-memory: the module-level memoryStorage object
  last,           \* the request handled last, what the upstream did, each worker's response
  recent,         \* history: per variant, the entries appended since the last clear (newest MaxLogs)
  appended,       \* history: per variant, how many entries were appended since the last clear
  calls           \* store requests in flight: where each is between its arrival and its response

vars == <<variant, env, now, storage, memoryStorage, last, recent, appended, calls>>

-----------------------------------------------------------------------------
(* Bounds *)

\* stands for the 1000 of `logs.length > 1000` (storage.js:172, part_001:212,620)
MaxLogs == 2
\* the clock runs from 0 to MaxTime
MaxTime == 1
\* forwarded requests counted by memoryStorage.stats: enough to overflow the log
MaxForwards == MaxLogs + 1
\* forwarded requests counted where the success rate is the subject: enough for
\* 23 successes in 40
MaxCounted == 40
\* requests in flight at once: enough to overflow the log
MaxCalls == 3

DEFAULT_LIMIT == 50

-----------------------------------------------------------------------------
(* JavaScript values *)

Undefined == <<"undefined">>
Str(b, n) == <<"string", b, n>>
Num(k) == <<"number", k>>
Bool(b) == <<"boolean", b>>
Null == <<"null">>
\* new Date().toISOString() at clock value t
Iso(t) == <<"isodate", t>>
EmptyObj == <<>>

IsString(v) == v[1] \in {"string", "isodate", "id"}

\* ToBoolean
Truthy(v) ==
  CASE v[1] = "undefined" -> FALSE
    [] v[1] = "string" -> ~(v[2] = "" /\ v[3] = 0)
    [] v[1] = "number" -> v[2] # 0
    [] v[1] = "boolean" -> v[2]
    [] v[1] = "null" -> FALSE
    [] OTHER -> TRUE

\* o.k
Get(o, k) == IF k \in DOMAIN o THEN o[k] ELSE Undefined

\* a replace that strips every trailing slash
StripSlashes(s) == IF s[1] = "string" THEN Str(s[2], 0) ELSE s

\* s.replace(/\/$/, '')
StripSlash(s) == IF s[1] = "string" /\ s[3] > 0 THEN Str(s[2], s[3] - 1) ELSE s

\* Math.round(a / b) for integers a >= 0, b > 0: a / b is a double when it is some
\* k + 1/2, and is otherwise further from every k + 1/2 than the double a / b is
\* from it, so the double is rounded as a / b is
Round(a, b) == (2 * a + b) \div (2 * b)

-----------------------------------------------------------------------------
(* The arithmetic of IEEE 754 doubles, as far as the statistics use it.  A  *)
(* positive double is <<bits, e>>: bits is its significand, most             *)
(* significant bit first and at most 53 bits long, its value the integer     *)
(* written by bits times 2^e.                                                *)

SIGNIFICAND == 53

\* the natural number written by bits
RECURSIVE NatOf(_)
NatOf(bits) ==
  IF bits = <<>> THEN 0 ELSE 2 * NatOf(SubSeq(bits, 1, Len(bits) - 1)) + bits[Len(bits)]

\* the double nearest to bits * 2^e, ties to the even significand (bits starts
\* with a 1): the first 53 bits, plus one when what follows them is more than a
\* half, or is a half and the last of them is a 1
RoundToDouble(bits, e) ==
  LET kept == SubSeq(bits, 1, SIGNIFICAND)
      \* the last 0 of kept becomes a 1 and the 1s after it become 0s
      last0 == CHOOSE i \in 1..SIGNIFICAND : kept[i] = 0 /\ \A j \in (i + 1)..SIGNIFICAND : kept[j] = 1
  IN IF Len(bits) <= SIGNIFICAND THEN <<bits, e>>
     ELSE IF /\ bits[SIGNIFICAND + 1] = 1
             /\ \/ bits[SIGNIFICAND] = 1
                \/ \E i \in (SIGNIFICAND + 2)..Len(bits) : bits[i] = 1
     THEN IF \A i \in 1..SIGNIFICAND : kept[i] = 1
          THEN <<[i \in 1..SIGNIFICAND |-> IF i = 1 THEN 1 ELSE 0], e + Len(bits) - SIGNIFICAND + 1>>
          ELSE <<[i \in 1..SIGNIFICAND |-> IF i < last0 THEN kept[i] ELSE IF i = last0 THEN 1 ELSE 0],
                 e + Len(bits) - SIGNIFICAND>>
     ELSE <<kept, e + Len(bits) - SIGNIFICAND>>

\* 2^n modulo t
RECURSIVE PowerOfTwoMod(_, _)
PowerOfTwoMod(n, t) ==
  IF n < 30 THEN (2 ^ n) % t ELSE (PowerOfTwoMod(n - 29, t) * ((2 ^ 29) % t)) % t

\* s / t as a double, 0 < s < t: the binary digits of s / t from the first 1 on, 54
\* of them and one more that tells whether anything but zeros comes after
Quotient(s, t) ==
  LET zeros == CHOOSE z \in 0..30 : s * 2 ^ z < t /\ s * 2 ^ (z + 1) >= t
      r == s * 2 ^ zeros
  IN RoundToDouble(
       [i \in 1..(SIGNIFICAND + 2) |->
          IF i <= SIGNIFICAND + 1
          THEN IF 2 * ((r * PowerOfTwoMod(i - 1, t)) % t) >= t THEN 1 ELSE 0
          ELSE IF (r * PowerOfTwoMod(SIGNIFICAND + 1, t)) % t = 0 THEN 0 ELSE 1],
       0 - (zeros + SIGNIFICAND + 2))

\* the bits of a limb
LIMB == 11

\* limbs * k + carry, one limb longer (limbs: most significant first)
RECURSIVE TimesLimbs(_, _, _)
TimesLimbs(limbs, k, carry) ==
  IF limbs = <<>> THEN <<carry>>
  ELSE TimesLimbs(SubSeq(limbs, 1, Len(limbs) - 1), k, (limbs[Len(limbs)] * k + carry) \div 2 ^ LIMB)
         \o <<(limbs[Len(limbs)] * k + carry) % 2 ^ LIMB>>

\* x * k as a double: the significand, zeros put before it, is cut into limbs; the
\* bits of the product from the first 1 on are rounded
Times(x, k) ==
  LET n == (Len(x[1]) + LIMB - 1) \div LIMB
      pad == LIMB * n - Len(x[1])
      product == TimesLimbs([j \in 1..n |->
                               NatOf([i \in 1..LIMB |->
                                        IF LIMB * (j - 1) + i <= pad THEN 0
                                        ELSE x[1][LIMB * (j - 1) + i - pad]])],
                            k, 0)
      bit(i) == (product[(i - 1) \div LIMB + 1] \div 2 ^ (LIMB - 1 - ((i - 1) % LIMB))) % 2
      first1 == CHOOSE i \in 1..(LIMB * (n + 1)) : bit(i) = 1 /\ \A j \in 1..(i - 1) : bit(j) = 0
  IN RoundToDouble([i \in 1..(LIMB * (n + 1) - first1 + 1) |-> bit(first1 + i - 1)], x[2])

\* Math.round(x) of a double below 2^SIGNIFICAND: the integer part, and one more
\* when the digit after the point is a 1
MathRound(x) ==
  IF Len(x[1]) + x[2] < 0 THEN 0
  ELSE NatOf(SubSeq(x[1], 1, Len(x[1]) + x[2]))
       + (IF x[2] < 0 /\ x[1][Len(x[1]) + x[2] + 1] = 1 THEN 1 ELSE 0)

\* Math.round((s / t) * 100) for 0 <= s <= t, t > 0.  The double (s / t) * 100 is
\* off 100 s / t by less than 2^-45, and 100 s / t, when it is not some k + 1/2, is
\* 1 / (2 t) or more away from every k + 1/2: the double is then rounded as
\* 100 s / t is.  When 100 s / t is a k + 1/2 the double decides.
RoundPercent(s, t) ==
  IF s = 0 THEN 0
  ELSE IF s = t THEN 100
  ELSE IF (200 * s) % (2 * t) # t THEN Round(100 * s, t)
  ELSE MathRound(Times(Quotient(s, t), 100))

-----------------------------------------------------------------------------

\* x >= 200 && x < 300
IsSuccess(v) == v[1] = "number" /\ v[2] >= 200 /\ v[2] < 300

\* x || 0 as a summand
NumOrZero(v) == IF v[1] = "number" THEN v[2] ELSE 0

RECURSIVE SumDuration(_)
SumDuration(logs) ==
  IF logs = <<>> THEN 0
  ELSE NumOrZero(Get(Head(logs), "duration")) + SumDuration(Tail(logs))

CountSuccess(logs) ==
  Cardinality({i \in 1..Len(logs) : IsSuccess(Get(logs[i], "status"))})

\* logs.slice(-limit): the last limit entries for limit > 0; for limit < 0 the
\* call is logs.slice(|limit|), which drops the first |limit| entries
SliceLast(logs, limit) ==
  IF limit > 0
  THEN IF Len(logs) <= limit THEN logs ELSE SubSeq(logs, Len(logs) - limit + 1, Len(logs))
  ELSE SubSeq(logs, 1 - limit, Len(logs))

\* parseInt(url.searchParams.get('limit')) || 50
ParseLimit(q) == IF q[1] = "number" /\ q[2] # 0 THEN q[2] ELSE DEFAULT_LIMIT

-----------------------------------------------------------------------------
(* Results of a handler: a response, or an exception, with the store after *)

Ret(status, body, st) == [threw |-> FALSE, status |-> status, body |-> body, st |-> st]
Throw(msg, st) == [threw |-> TRUE, status |-> 0, body |-> <<"exception", msg>>, st |-> st]

-----------------------------------------------------------------------------
(* Paths are sequences of segments: /admin/config is <<"admin", "config">> *)

\* seg.startsWith(p) for the segments the requests use
SegStartsWith(seg, p) == seg = p \/ <<seg, p>> \in {<<"configs", "config">>, <<"logs2", "logs">>}

\* path.startsWith('/' + p)
PathStartsWith(path, p) == Len(path) >= 1 /\ SegStartsWith(path[1], p)

-----------------------------------------------------------------------------
(* LLMProxyStorage (src/src/storage.js).  st is state.storage:             *)
(* [config |-> object, logs |-> array]; a key never written reads as {} or *)
(* [] (`get(..) || {}`).  Every method runs to completion before the next  *)
(* request is delivered to the object.                                     *)

\* Date.now().toString(36) + Math.random().toString(36).substr(2, 5)
generateId(t, rnd) == <<"id", t, rnd>>

getConfig(st) == Ret(200, <<"object", st.config>>, st)

\* a setConfig that replaces the record by the update
MergeConfigReplacing(existingConfig, data, t) == ("updatedAt" :> Iso(t)) @@ data

\* { ...existingConfig, ...data, updatedAt: new Date().toISOString() }
MergeConfig(existingConfig, data, t) == ("updatedAt" :> Iso(t)) @@ data @@ existingConfig

\* a setConfig that stamps updatedAt before it validates
setConfigStampingFirst(st, data, t) ==
  IF Truthy(Get(data, "targetApiUrl")) /\ ~IsString(Get(data, "targetApiUrl"))
  THEN Ret(400, <<"error", "Invalid targetApiUrl">>,
           [st EXCEPT !.config = ("updatedAt" :> Iso(t)) @@ st.config])
  ELSE IF Truthy(Get(data, "adminPassword")) /\ ~IsString(Get(data, "adminPassword"))
  THEN Ret(400, <<"error", "Invalid adminPassword">>,
           [st EXCEPT !.config = ("updatedAt" :> Iso(t)) @@ st.config])
  ELSE Ret(200, <<"object", MergeConfig(st.config, data, t)>>,
           [st EXCEPT !.config = MergeConfig(st.config, data, t)])

setConfig(st, data, t) ==
  IF Truthy(Get(data, "targetApiUrl")) /\ ~IsString(Get(data, "targetApiUrl"))
  THEN Ret(400, <<"error", "Invalid targetApiUrl">>, st)
  ELSE IF Truthy(Get(data, "adminPassword")) /\ ~IsString(Get(data, "adminPassword"))
  THEN Ret(400, <<"error", "Invalid adminPassword">>, st)
  ELSE LET newConfig == MergeConfig(st.config, data, t)
       IN Ret(200, <<"object", newConfig>>, [st EXCEPT !.config = newConfig])

getLogs(st, limit) == Ret(200, <<"array", SliceLast(st.logs, limit)>>, st)

\* a trim that drops the newest entries instead of the oldest
PushAndTrimKeepOldest(logs, newLog) ==
  LET pushed == Append(logs, newLog)
  IN IF Len(pushed) > MaxLogs THEN SubSeq(pushed, 1, MaxLogs) ELSE pushed

\* logs.push(newLog); if (logs.length > 1000) logs.splice(0, logs.length - 1000)
PushAndTrim(logs, newLog) ==
  LET pushed == Append(logs, newLog)
  IN IF Len(pushed) > MaxLogs
     THEN SubSeq(pushed, Len(pushed) - MaxLogs + 1, Len(pushed))
     ELSE pushed

\* an entry that keeps the timestamp of the caller
NewLogKeepingTimestamp(logData, t, rnd) ==
  logData @@ ("timestamp" :> Iso(t)) @@ ("id" :> generateId(t, rnd))

\* { id: <generated>, ...logData, timestamp: new Date().toISOString() }
NewLog(logData, t, rnd) == ("timestamp" :> Iso(t)) @@ logData @@ ("id" :> generateId(t, rnd))

addLog(st, logData, t, rnd) ==
  IF ~Truthy(Get(logData, "endpoint")) \/ ~Truthy(Get(logData, "timestamp"))
  THEN Ret(400, <<"error", "Missing required fields">>, st)
  ELSE LET newLog == NewLog(logData, t, rnd)
       IN Ret(200, <<"object", newLog>>, [st EXCEPT !.logs = PushAndTrim(st.logs, newLog)])

\* a clear that resets the whole store
clearEverything(st) ==
  Ret(200, <<"message", "Logs cleared">>, [st EXCEPT !.logs = <<>>, !.config = EmptyObj])

\* a clear that refuses an empty log
clearLogsOnce(st) ==
  IF st.logs = <<>> THEN Ret(400, <<"error", "Nothing to clear">>, st)
  ELSE Ret(200, <<"message", "Logs cleared">>, [st EXCEPT !.logs = <<>>])

clearLogs(st) == Ret(200, <<"message", "Logs cleared">>, [st EXCEPT !.logs = <<>>])

\* the statistics object computed from a log and a configuration record
StatsOf(totalRequests, successfulRequests, totalDuration, config) ==
  [totalRequests |-> totalRequests,
   successRate |-> IF totalRequests > 0 THEN RoundPercent(successfulRequests, totalRequests) ELSE 0,
   avgResponseTime |-> IF totalRequests > 0 THEN Round(totalDuration, totalRequests) ELSE 0,
   currentTarget |-> IF Truthy(Get(config, "targetApiUrl")) THEN Get(config, "targetApiUrl") ELSE Null,
   lastUpdated |-> IF Truthy(Get(config, "updatedAt")) THEN Get(config, "updatedAt") ELSE Null]

getStats(st) ==
  Ret(200, <<"stats", StatsOf(Len(st.logs), CountSuccess(st.logs), SumDuration(st.logs), st.config)>>, st)

\* a request body: <<"json", object>>, or <<"invalid">> when request.json() rejects
BodyOk(body) == body[1] = "json"

DO_handleConfig(st, r, t) ==
  CASE r.method = "GET" -> getConfig(st)
    [] r.method = "POST" ->
         IF BodyOk(r.body) THEN setConfig(st, r.body[2], t) ELSE Throw("Unexpected end of JSON input", st)
    [] OTHER -> Ret(405, <<"text", "Method not allowed">>, st)

DO_handleLogs(st, r, t, rnd) ==
  CASE r.method = "GET" -> getLogs(st, ParseLimit(r.limit))
    [] r.method = "POST" ->
         IF BodyOk(r.body) THEN addLog(st, r.body[2], t, rnd) ELSE Throw("Unexpected end of JSON input", st)
    [] r.method = "DELETE" -> clearLogs(st)
    [] OTHER -> Ret(405, <<"text", "Method not allowed">>, st)

DO_handleStats(st, r) ==
  IF r.method = "GET" THEN getStats(st) ELSE Ret(405, <<"text", "Method not allowed">>, st)

\* LLMProxyStorage.fetch: `return this.handleX(..)` is not awaited, so a rejection
\* of the handler is not caught by the try block and reaches the caller of stub.fetch
DO_fetch(st, r, t, rnd) ==
  IF r.method = "OPTIONS" THEN Ret(200, <<"cors">>, st)
  ELSE IF PathStartsWith(r.path, "config") THEN DO_handleConfig(st, r, t)
  ELSE IF PathStartsWith(r.path, "logs") THEN DO_handleLogs(st, r, t, rnd)
  ELSE IF PathStartsWith(r.path, "stats") THEN DO_handleStats(st, r)
  ELSE Ret(404, <<"text", "Not found">>, st)

-----------------------------------------------------------------------------
(* Requests.  r = [scheme, method, path, auth, urlHeader, body, limit]:    *)
(* auth is the Authorization header (undefined, <<"bearer", tok>> for      *)
(* "Bearer tok", <<"raw", tok>> for "tok"), urlHeader the x-target-api-url *)
(* header, limit the ?limit= query parameter.                              *)
(* A worker handler returns [threw, status, body, st, out]: out is the     *)
(* upstream base URL the request was forwarded to (undefined when none).   *)
(* authorization is the Authorization header of the request sent upstream: *)
(* undefined when it has none, <<"none">> when no request was sent.         *)

WRet(status, body, st, out) ==
  [threw |-> FALSE, status |-> status, body |-> body, st |-> st, out |-> out,
   authorization |-> <<"none">>]

DEFAULT_TARGET == Str("https://api.openai.com", 0)

STORAGE_CONFIG_PATH == <<"api", "storage", "config">>
STORAGE_LOGS_PATH == <<"api", "storage", "logs">>

\* the request stub.fetch(url) or stub.fetch(new Request(url, {method, body})) sends
StubRequest(method, path, body) ==
  [scheme |-> "http", method |-> method, path |-> path, auth |-> Undefined,
   urlHeader |-> Undefined, body |-> body, limit |-> Undefined]

\* response.ok
IsOk(status) == status >= 200 /\ status <= 299

\* (env.TARGET_API_URL || 'https://api.openai.com').replace(/\/$/, '')
EnvTargetApiUrl(e) ==
  StripSlash(IF Truthy(e.TARGET_API_URL) THEN e.TARGET_API_URL ELSE DEFAULT_TARGET)

\* the token left by authHeader.replace('Bearer ', '')
verifyAdminAuth(r, e) ==
  IF r.auth = Undefined THEN FALSE
  ELSE IF r.auth[2] = "" THEN FALSE
  ELSE Str(r.auth[2], 0) = e.ADMIN_PASSWORD \/ r.auth[2] = "admin-token"

\* env.LLM_PROXY_STORAGE.idFromName(..), .get(id), stub.fetch(request): the request is
\* handled by the Durable Object; in a deployment without the binding the first call
\* throws a TypeError
StubFetch(e, st, req, t, rnd) ==
  IF e.LLM_PROXY_STORAGE = Undefined THEN Throw("Cannot read properties of undefined", st)
  ELSE DO_fetch(st, req, t, rnd)

\* index.js getTargetApiUrl: header, then the config read through the storage object
\* (a failed or non-ok read falls through), then the environment
StoredTargetApiUrl(configResponse, e) ==
  IF /\ ~configResponse.threw
     /\ IsOk(configResponse.status)
     /\ configResponse.body[1] = "object"
     /\ Truthy(Get(configResponse.body[2], "targetApiUrl"))
     /\ IsString(Get(configResponse.body[2], "targetApiUrl"))
  THEN StripSlash(Get(configResponse.body[2], "targetApiUrl"))
  ELSE EnvTargetApiUrl(e)

\* a resolution that asks the store first and never reads the header
getTargetApiUrlIgnoringHeader(st, r, e, t, rnd) ==
  StoredTargetApiUrl(
    StubFetch(e, st, StubRequest("GET", STORAGE_CONFIG_PATH, <<"none">>), t, rnd), e)

getTargetApiUrl(st, r, e, t, rnd) ==
  IF Truthy(r.urlHeader) THEN StripSlash(r.urlHeader)
  ELSE StoredTargetApiUrl(
         StubFetch(e, st, StubRequest("GET", STORAGE_CONFIG_PATH, <<"none">>), t, rnd), e)

\* a forwardRequest that lets the exception out: the worker's catch-all answers 500
forwardRequestUncaught(target, up) ==
  IF up[1] = "throw" \/ ~Truthy(target) THEN 500 ELSE up[2]

\* forwardRequest: up is what the upstream does, <<"response", status>> or <<"throw">>;
\* an empty target makes `new Request(targetUrl)` throw.  Returns the status relayed.
forwardRequest(target, up) ==
  IF up[1] = "throw" \/ ~Truthy(target) THEN 502 ELSE up[2]

\* forwardRequest, the key: the x-target-api-key header, or else the static default
\* (customApiKey || env.TARGET_API_KEY)
targetApiKeyPaired(r, e) ==
  IF Truthy(r.keyHeader) /\ Truthy(r.urlHeader) THEN r.keyHeader ELSE e.TARGET_API_KEY

targetApiKey(r, e) ==
  IF Truthy(r.keyHeader) THEN r.keyHeader ELSE e.TARGET_API_KEY

\* forwardRequest, the Authorization header of targetRequest: the headers are a copy
\* of the inbound ones, Authorization is set when a key was resolved and is the
\* inbound one otherwise; with an empty target no request is made
targetRequestAuthorization(target, r, e) ==
  IF ~Truthy(target) THEN <<"none">>
  ELSE IF Truthy(targetApiKey(r, e)) THEN <<"bearer", targetApiKey(r, e)[2]>>
  ELSE r.auth

ForwardBody(target, up) ==
  IF up[1] = "throw" \/ ~Truthy(target)
  THEN <<"error", "Failed to forward request">> ELSE <<"upstream", up[2]>>

\* index.js logRequest: POST the entry to the storage object; any failure is swallowed
logRequest(st, e, logData, t, rnd) ==
  StubFetch(e, st, StubRequest("POST", STORAGE_LOGS_PATH, <<"json", logData>>), t, rnd).st

LogData(endpoint, targetApi, status, duration, t) ==
  [endpoint |-> Str(endpoint, 0), targetApi |-> targetApi, status |-> Num(status),
   duration |-> Num(duration), timestamp |-> Iso(t)]

\* a handler that answers 500 when the entry could not be logged
ForwardAndLogChecked(st, e, targetApiUrl, endpoint, up, d, t, rnd) ==
  IF ~IsOk(StubFetch(e, st, StubRequest("POST", STORAGE_LOGS_PATH,
             <<"json", LogData(endpoint, targetApiUrl, forwardRequest(targetApiUrl, up), d, t + d)>>),
           t + d, rnd).status)
  THEN WRet(500, <<"error", "Internal server error">>, st, targetApiUrl)
  ELSE WRet(forwardRequest(targetApiUrl, up), ForwardBody(targetApiUrl, up),
            logRequest(st, e, LogData(endpoint, targetApiUrl, forwardRequest(targetApiUrl, up), d, t + d),
                       t + d, rnd),
            targetApiUrl)

\* index.js handleChatCompletion / handleCompletions / handleEmbeddings (try branch;
\* neither getTargetApiUrl, forwardRequest nor logRequest lets an exception out, so
\* the catch branch is never entered).  t is the start time, d the time the call took.
ForwardAndLog(st, e, targetApiUrl, endpoint, up, d, t, rnd) ==
  WRet(forwardRequest(targetApiUrl, up), ForwardBody(targetApiUrl, up),
       logRequest(st, e, LogData(endpoint, targetApiUrl, forwardRequest(targetApiUrl, up), d, t + d),
                  t + d, rnd),
       targetApiUrl)

HandleEndpoint(st, r, e, endpoint, up, d, t, rnd) ==
  [ForwardAndLog(st, e, getTargetApiUrl(st, r, e, t, rnd), endpoint, up, d, t, rnd)
     EXCEPT !.authorization = targetRequestAuthorization(getTargetApiUrl(st, r, e, t, rnd), r, e)]

handleChatCompletion(st, r, e, up, d, t, rnd) ==
  HandleEndpoint(st, r, e, "/v1/chat/completions", up, d, t, rnd)
handleCompletions(st, r, e, up, d, t, rnd) ==
  HandleEndpoint(st, r, e, "/v1/completions", up, d, t, rnd)
handleEmbeddings(st, r, e, up, d, t, rnd) ==
  HandleEndpoint(st, r, e, "/v1/embeddings", up, d, t, rnd)

\* a probe that counts only 2xx answers as a connection
handleTestConnectionStrict(st, r, up) ==
  IF ~BodyOk(r.body) THEN WRet(502, <<"error", "Connection failed">>, st, Undefined)
  ELSE IF ~Truthy(Get(r.body[2], "targetApiUrl"))
  THEN WRet(400, <<"error", "Missing targetApiUrl">>, st, Undefined)
  ELSE IF up[1] = "throw" \/ ~IsOk(up[2])
  THEN WRet(502, <<"error", "Connection failed">>, st, Get(r.body[2], "targetApiUrl"))
  ELSE WRet(200, <<"connection", up[2]>>, st, Get(r.body[2], "targetApiUrl"))

\* handleTestConnection (the same code in both workers): request.json() rejecting
\* is caught like a failed probe; once targetApiUrl is known to be truthy the probe
\* GET <targetApiUrl>/v1/models is issued (out) and its outcome classified
handleTestConnection(st, r, up) ==
  IF ~BodyOk(r.body) THEN WRet(502, <<"error", "Connection failed">>, st, Undefined)
  ELSE IF ~Truthy(Get(r.body[2], "targetApiUrl"))
  THEN WRet(400, <<"error", "Missing targetApiUrl">>, st, Undefined)
  ELSE IF up[1] = "throw"
  THEN WRet(502, <<"error", "Connection failed">>, st, Get(r.body[2], "targetApiUrl"))
  ELSE IF up[2] = 401 \/ up[2] = 403 \/ up[2] = 404 \/ up[2] >= 200
  THEN WRet(200, <<"connection", up[2]>>, st, Get(r.body[2], "targetApiUrl"))
  ELSE WRet(502, <<"error", "Connection failed">>, st, Get(r.body[2], "targetApiUrl"))

\* the CORS headers of a response, by the handler that built it: handleOptions sets
\* Access-Control-Allow-Origin and -Allow-Methods, forwardRequest sets
\* Access-Control-Allow-Origin on the relayed response, the others set neither
PREFLIGHT_METHODS == {"GET", "POST", "PUT", "DELETE", "OPTIONS"}
AllowMethods(body) == IF body = <<"cors">> THEN PREFLIGHT_METHODS ELSE {}
AllowOrigin(body) == body[1] \in {"cors", "upstream"}

\* the result of `await stub.fetch(..)` seen by the worker
FromStub(res) ==
  [threw |-> res.threw, status |-> res.status, body |-> res.body, st |-> res.st, out |-> Undefined,
   authorization |-> <<"none">>]

\* index.js handleStorageRequest: strip /api/storage and hand the request to the object
handleStorageRequest(st, r, e, t, rnd) ==
  FromStub(StubFetch(e, st, [r EXCEPT !.path = SubSeq(r.path, 3, Len(r.path))], t, rnd))

\* index.js handleAdminApi: /admin/<rest> is rewritten to /api/storage/<rest>
handleAdminApi(st, r, e, up, t, rnd) ==
  LET pathname == Tail(r.path)
  IN IF pathname = <<"test-connection">> /\ r.method = "POST"
     THEN handleTestConnection(st, r, up)
     ELSE FromStub(StubFetch(e, st, [r EXCEPT !.path = <<"api", "storage">> \o pathname], t, rnd))

LLM_PATHS == {<<"v1", "chat", "completions">>, <<"v1", "completions">>, <<"v1", "embeddings">>}

\* the routing below the production check, index.js:23-92
Route(st, r, e, up, d, t, rnd) ==
  IF Len(r.path) >= 2 /\ r.path[1] = "api" /\ SegStartsWith(r.path[2], "storage")
  THEN handleStorageRequest(st, r, e, t, rnd)
  ELSE IF r.path = <<"admin">> \/ r.path = <<"admin", "">>
  THEN WRet(200, <<"html">>, st, Undefined)
  ELSE IF Len(r.path) >= 2 /\ r.path[1] = "admin"
  THEN IF ~verifyAdminAuth(r, e)
       THEN WRet(401, <<"error", "Unauthorized">>, st, Undefined)
       ELSE handleAdminApi(st, r, e, up, t, rnd)
  ELSE IF r.method = "OPTIONS" THEN WRet(200, <<"cors">>, st, Undefined)
  ELSE IF r.method # "POST" /\ r.method # "GET"
  THEN WRet(405, <<"error", "Method not allowed">>, st, Undefined)
  ELSE IF r.method = "GET"
  THEN IF r.path = <<>> \/ r.path = <<"health">>
       THEN WRet(200, <<"health">>, st, Undefined)
       ELSE WRet(404, <<"error", "Not found">>, st, Undefined)
  ELSE IF r.path = <<"v1", "chat", "completions">> THEN handleChatCompletion(st, r, e, up, d, t, rnd)
  ELSE IF r.path = <<"v1", "completions">> THEN handleCompletions(st, r, e, up, d, t, rnd)
  ELSE IF r.path = <<"v1", "embeddings">> THEN handleEmbeddings(st, r, e, up, d, t, rnd)
  ELSE WRet(404, <<"error", "Endpoint not found">>, st, Undefined)

\* index.js fetch: the production check, the routing, and the catch-all
\* catch (error) { return new Response(.., { status: 500 }) }
Caught(res) ==
  IF res.threw THEN WRet(500, <<"error", "Internal server error">>, res.st, res.out) ELSE res

\* a fetch without the catch-all
fetchUncaught(st, r, e, up, d, t, rnd) ==
  IF e.ENVIRONMENT = "production" /\ r.scheme # "https"
  THEN WRet(403, <<"text", "Please use HTTPS">>, st, Undefined)
  ELSE Route(st, r, e, up, d, t, rnd)

\* a fetch without the production check
fetchUngated(st, r, e, up, d, t, rnd) == Caught(Route(st, r, e, up, d, t, rnd))

fetch(st, r, e, up, d, t, rnd) ==
  IF e.ENVIRONMENT = "production" /\ r.scheme # "https"
  THEN WRet(403, <<"text", "Please use HTTPS">>, st, Undefined)
  ELSE Caught(Route(st, r, e, up, d, t, rnd))

-----------------------------------------------------------------------------
(* The in-memory worker (src/unnamed/part_001).  ms is memoryStorage:      *)
(* [config |-> object, logs |-> array,                                     *)
(*  stats |-> [totalRequests, successfulRequests, totalDuration]].         *)

M_handleConfig(ms, r, t) ==
  CASE r.method = "GET" -> WRet(200, <<"object", ms.config>>, ms, Undefined)
    [] r.method = "POST" ->
         IF ~BodyOk(r.body) THEN WRet(400, <<"error", "Invalid JSON">>, ms, Undefined)
         ELSE LET data == r.body[2]
              IN IF Truthy(Get(data, "targetApiUrl")) /\ ~IsString(Get(data, "targetApiUrl"))
                 THEN WRet(400, <<"error", "Invalid targetApiUrl">>, ms, Undefined)
                 ELSE IF Truthy(Get(data, "adminPassword")) /\ ~IsString(Get(data, "adminPassword"))
                 THEN WRet(400, <<"error", "Invalid adminPassword">>, ms, Undefined)
                 ELSE LET newConfig == MergeConfig(ms.config, data, t)
                      IN WRet(200, <<"object", newConfig>>, [ms EXCEPT !.config = newConfig], Undefined)
    [] OTHER -> WRet(405, <<"text", "Method not allowed">>, ms, Undefined)

M_handleLogs(ms, r, t, rnd) ==
  CASE r.method = "GET" ->
         WRet(200, <<"array", SliceLast(ms.logs, ParseLimit(r.limit))>>, ms, Undefined)
    [] r.method = "POST" ->
         IF ~BodyOk(r.body) THEN WRet(400, <<"error", "Invalid JSON">>, ms, Undefined)
         ELSE LET logData == r.body[2]
              IN IF ~Truthy(Get(logData, "endpoint")) \/ ~Truthy(Get(logData, "timestamp"))
                 THEN WRet(400, <<"error", "Missing required fields">>, ms, Undefined)
                 ELSE LET newLog == NewLog(logData, t, rnd)
                      IN WRet(200, <<"object", newLog>>,
                              [ms EXCEPT !.logs = PushAndTrim(ms.logs, newLog)], Undefined)
    [] r.method = "DELETE" ->
         WRet(200, <<"message", "Logs cleared">>, [ms EXCEPT !.logs = <<>>], Undefined)
    [] OTHER -> WRet(405, <<"text", "Method not allowed">>, ms, Undefined)

M_handleStats(ms, r) ==
  IF r.method = "GET"
  THEN WRet(200, <<"stats", StatsOf(ms.stats.totalRequests, ms.stats.successfulRequests,
                                    ms.stats.totalDuration, ms.config)>>, ms, Undefined)
  ELSE WRet(405, <<"text", "Method not allowed">>, ms, Undefined)

M_handleAdminApi(ms, r, up, t, rnd) ==
  LET pathname == Tail(r.path)
  IN IF pathname = <<"test-connection">> /\ r.method = "POST" THEN handleTestConnection(ms, r, up)
     ELSE IF pathname = <<"config">> THEN M_handleConfig(ms, r, t)
     ELSE IF PathStartsWith(pathname, "logs") THEN M_handleLogs(ms, r, t, rnd)
     ELSE IF pathname = <<"stats">> THEN M_handleStats(ms, r)
     ELSE WRet(404, <<"error", "Endpoint not found">>, ms, Undefined)

\* part_001 verifyAdminAuth: `return true`
M_verifyAdminAuth(r, e) == TRUE

M_getTargetApiUrl(ms, r, e) ==
  IF Truthy(r.urlHeader) THEN StripSlash(r.urlHeader)
  ELSE IF Truthy(Get(ms.config, "targetApiUrl")) THEN StripSlash(Get(ms.config, "targetApiUrl"))
  ELSE EnvTargetApiUrl(e)

M_logRequest(ms, logData, t, rnd) ==
  [ms EXCEPT
     !.logs = PushAndTrim(ms.logs, NewLog(logData, t, rnd)),
     !.stats = [totalRequests |-> ms.stats.totalRequests + 1,
                successfulRequests |->
                  ms.stats.successfulRequests + (IF IsSuccess(Get(logData, "status")) THEN 1 ELSE 0),
                totalDuration |-> ms.stats.totalDuration + NumOrZero(Get(logData, "duration"))]]

M_ForwardAndLog(ms, targetApiUrl, endpoint, up, d, t, rnd) ==
  WRet(forwardRequest(targetApiUrl, up), ForwardBody(targetApiUrl, up),
       M_logRequest(ms, LogData(endpoint, targetApiUrl, forwardRequest(targetApiUrl, up), d, t + d),
                    t + d, rnd),
       targetApiUrl)

M_HandleEndpoint(ms, r, e, endpoint, up, d, t, rnd) ==
  [M_ForwardAndLog(ms, M_getTargetApiUrl(ms, r, e), endpoint, up, d, t, rnd)
     EXCEPT !.authorization = targetRequestAuthorization(M_getTargetApiUrl(ms, r, e), r, e)]

M_Route(ms, r, e, up, d, t, rnd) ==
  IF r.path = <<"admin">> \/ r.path = <<"admin", "">>
  THEN WRet(200, <<"html">>, ms, Undefined)
  ELSE IF Len(r.path) >= 2 /\ r.path[1] = "admin"
  THEN IF ~M_verifyAdminAuth(r, e)
       THEN WRet(401, <<"error", "Unauthorized">>, ms, Undefined)
       ELSE M_handleAdminApi(ms, r, up, t, rnd)
  ELSE IF r.method = "OPTIONS" THEN WRet(200, <<"cors">>, ms, Undefined)
  ELSE IF r.method # "POST" /\ r.method # "GET"
  THEN WRet(405, <<"error", "Method not allowed">>, ms, Undefined)
  ELSE IF r.method = "GET"
  THEN IF r.path = <<>> \/ r.path = <<"health">>
       THEN WRet(200, <<"health">>, ms, Undefined)
       ELSE WRet(404, <<"error", "Not found">>, ms, Undefined)
  ELSE IF r.path = <<"v1", "chat", "completions">>
  THEN M_HandleEndpoint(ms, r, e, "/v1/chat/completions", up, d, t, rnd)
  ELSE IF r.path = <<"v1", "completions">>
  THEN M_HandleEndpoint(ms, r, e, "/v1/completions", up, d, t, rnd)
  ELSE IF r.path = <<"v1", "embeddings">>
  THEN M_HandleEndpoint(ms, r, e, "/v1/embeddings", up, d, t, rnd)
  ELSE WRet(404, <<"error", "Endpoint not found">>, ms, Undefined)

M_fetch(ms, r, e, up, d, t, rnd) ==
  IF e.ENVIRONMENT = "production" /\ r.scheme # "https"
  THEN WRet(403, <<"text", "Please use HTTPS">>, ms, Undefined)
  ELSE Caught(M_Route(ms, r, e, up, d, t, rnd))

-----------------------------------------------------------------------------
(* Inputs *)

BaseEnv ==
  [ENVIRONMENT |-> "development", ADMIN_PASSWORD |-> Str("secret", 0),
   TARGET_API_URL |-> Undefined, TARGET_API_KEY |-> Undefined,
   LLM_PROXY_STORAGE |-> <<"namespace">>]

\* url.protocol of the inbound request
Schemes == {"https", "http"}

Admin == <<"bearer", "secret">>
Auths == {Undefined, Admin, <<"bearer", "wrong">>, <<"bearer", "admin-token">>}

\* Authorization headers: none, the static credential, a credential stored by a
\* configuration write (Password)
Credentials == {Undefined, Admin, <<"bearer", "pw">>}

\* the route prefixes under which the store operations are requested
Prefixes == {<<"admin">>, <<"api", "storage">>}

UrlU == [targetApiUrl |-> Str("U", 1)]
UrlV == [targetApiUrl |-> Str("V", 0)]
Password == [adminPassword |-> Str("pw", 0)]

LogBodies ==
  {<<"json", [endpoint |-> Str("/custom", 0), timestamp |-> Str("T", 0),
              status |-> Num(201), duration |-> Num(3)]>>,
   <<"json", [endpoint |-> Str("/custom", 0), timestamp |-> Str("T", 0)]>>,
   <<"json", [endpoint |-> Str("/custom", 0)]>>,
   <<"invalid">>}

\* log entries a client submits: with and without a status and a duration
ValidLogBodies ==
  {<<"json", [endpoint |-> Str("/custom", 0), timestamp |-> Str("T", 0),
              status |-> Num(201), duration |-> Num(3)]>>,
   <<"json", [endpoint |-> Str("/custom", 0), timestamp |-> Str("T", 0)]>>}

NoHeader == {Undefined}
\* no header, or the header "/": stripped of its slash it leaves the target URL
\* "/v1/chat/completions", which `new Request` refuses
TargetHeaders == {Undefined, Str("", 1)}
Upstreams == {<<"response", 200>>, <<"response", 429>>, <<"throw">>}

CHAT == <<"v1", "chat", "completions">>
COMPLETIONS == <<"v1", "completions">>
EMBEDDINGS == <<"v1", "embeddings">>

\* request methods
Methods == {"GET", "POST", "PUT", "DELETE", "OPTIONS"}

NoBody == <<"none">>

Request(method, path, auth, urlHeader, body, limit) ==
  [scheme |-> "https", method |-> method, path |-> path, auth |-> auth,
   urlHeader |-> urlHeader, keyHeader |-> Undefined, body |-> body, limit |-> limit]

-----------------------------------------------------------------------------
(* The state machine *)

NoResp == [status |-> 0, body |-> <<"none">>, out |-> Undefined, authorization |-> <<"none">>]
RespOf(res) ==
  [status |-> res.status, body |-> res.body, out |-> res.out, authorization |-> res.authorization]

Durable == variant \in {"durable", "both"}
Memory == variant \in {"memory", "both"}

\* a request not yet sent
IdleCall == [pc |-> "idle", key |-> "none", data |-> EmptyObj, local |-> <<>>, status |-> 0]

InitStores ==
  /\ now = 0
  /\ storage = [config |-> EmptyObj, logs |-> <<>>]
  /\ memoryStorage = [config |-> EmptyObj, logs |-> <<>>,
                      stats |-> [totalRequests |-> 0, successfulRequests |-> 0, totalDuration |-> 0]]
  /\ last = [req |-> Request("GET", <<"health">>, Undefined, Undefined, NoBody, Undefined),
             up |-> <<"throw">>, d |-> NoResp, m |-> NoResp]
  /\ recent = [d |-> <<>>, m |-> <<>>]
  /\ appended = [d |-> 0, m |-> 0]
  /\ calls = [i \in 1..MaxCalls |-> IdleCall]

\* the endpoint name of an LLM path
EndpointOf(path) ==
  CASE path = <<"v1", "chat", "completions">> -> "/v1/chat/completions"
    [] path = <<"v1", "completions">> -> "/v1/completions"
    [] path = <<"v1", "embeddings">> -> "/v1/embeddings"
    [] OTHER -> "?"

\* history: the entry a request appends: the one a submission is answered with, or
\* the outcome of a forwarded request
EntryOf(r, kind, res, d) ==
  IF kind = "submit" THEN res.body[2]
  ELSE NewLog(LogData(EndpointOf(r.path), res.out, res.status, d, now + d), now + d, 0)

\* history: the newest MaxLogs entries appended since the last clear
Remember(window, cleared, grew, entry) ==
  IF cleared THEN <<>>
  ELSE IF ~grew THEN window
  ELSE IF Len(window) < MaxLogs THEN Append(window, entry)
  ELSE Append(Tail(window), entry)

\* history: the number of entries appended since the last clear, counted up to MaxLogs + 1
Count(n, cleared, grew) ==
  IF cleared THEN 0
  ELSE IF grew /\ n <= MaxLogs THEN n + 1 ELSE n

\* whether a request appended an entry: a submission answered 200 did, a
\* forwarded request did when the log the worker keeps changed, or is kept in
\* memory and the request got as far as the forwarding handler
Grew(kind, res, logs0, inMemory) ==
  CASE kind = "submit" -> res.status = 200
    [] kind = "forward" -> (inMemory /\ res.out # Undefined) \/ res.st.logs # logs0
    [] OTHER -> FALSE

\* whether a request cleared the log: a clear answered 200 did
Cleared(kind, res) == kind = "clear" /\ res.status = 200

\* the effect of one request r on the deployed worker(s): dres is the durable
\* worker's result, mres the in-memory worker's, up what the upstream does when
\* called, d the time the request took
Effect(r, kind, up, dres, mres, d) ==
  /\ storage' = IF Durable THEN dres.st ELSE storage
  /\ memoryStorage' = IF Memory THEN mres.st ELSE memoryStorage
  /\ last' = [req |-> r, up |-> up,
              d |-> IF Durable THEN RespOf(dres) ELSE NoResp,
              m |-> IF Memory THEN RespOf(mres) ELSE NoResp]
  /\ recent' =
       [d |-> IF Durable
              THEN Remember(recent.d, Cleared(kind, dres),
                            Grew(kind, dres, storage.logs, FALSE), EntryOf(r, kind, dres, d))
              ELSE recent.d,
        m |-> IF Memory
              THEN Remember(recent.m, Cleared(kind, mres),
                            Grew(kind, mres, memoryStorage.logs, TRUE), EntryOf(r, kind, mres, d))
              ELSE recent.m]
  /\ appended' =
       [d |-> IF Durable
              THEN Count(appended.d, Cleared(kind, dres), Grew(kind, dres, storage.logs, FALSE))
              ELSE appended.d,
        m |-> IF Memory
              THEN Count(appended.m, Cleared(kind, mres), Grew(kind, mres, memoryStorage.logs, TRUE))
              ELSE appended.m]
  /\ now' = now + d
  /\ UNCHANGED <<variant, env, calls>>

\* One request r, handled by the deployed worker(s); up is what the upstream does
\* if it is called, d the time the forwarding takes
Handle(r, kind, up, d) ==
  Effect(r, kind, up, fetch(storage, r, env, up, d, now, 0),
         M_fetch(memoryStorage, r, env, up, d, now, 0), d)

\* side by side, the workers are sent the routes they share: those under /admin
PrefixAllowed(prefix) == variant = "both" => prefix = <<"admin">>

ConfigRead(auths) ==
  \E prefix \in Prefixes, auth \in auths :
    /\ PrefixAllowed(prefix)
    /\ Handle(Request("GET", prefix \o <<"config">>, auth, Undefined, NoBody, Undefined),
              "read", <<"throw">>, 0)

ConfigWrite(auths, bodies) ==
  \E prefix \in Prefixes, auth \in auths, body \in bodies :
    /\ PrefixAllowed(prefix)
    /\ Handle(Request("POST", prefix \o <<"config">>, auth, Undefined, body, Undefined),
              "write", <<"throw">>, 0)

\* GET logs with the query parameter limit drawn from limits
LogsQuery(auths, limits) ==
  \E prefix \in Prefixes, auth \in auths, limit \in limits :
    /\ PrefixAllowed(prefix)
    /\ Handle(Request("GET", prefix \o <<"logs">>, auth, Undefined, NoBody, limit),
              "read", <<"throw">>, 0)

LogsRead(auths) == LogsQuery(auths, {Undefined, Num(1)})

LogsAppend(auths, bodies) ==
  \E prefix \in Prefixes, auth \in auths, body \in bodies :
    /\ PrefixAllowed(prefix)
    /\ Handle(Request("POST", prefix \o <<"logs">>, auth, Undefined, body, Undefined),
              "submit", <<"throw">>, 0)

LogsClear(auths) ==
  \E prefix \in Prefixes, auth \in auths :
    /\ PrefixAllowed(prefix)
    /\ Handle(Request("DELETE", prefix \o <<"logs">>, auth, Undefined, NoBody, Undefined),
              "clear", <<"throw">>, 0)

StatsRead(auths) ==
  \E prefix \in Prefixes, auth \in auths :
    /\ PrefixAllowed(prefix)
    /\ Handle(Request("GET", prefix \o <<"stats">>, auth, Undefined, NoBody, Undefined),
              "read", <<"throw">>, 0)

\* a POST to one of the three LLM paths
Forward(path, headers, ups, durations) ==
  \E urlHeader \in headers, up \in ups, d \in durations :
    /\ now + d <= MaxTime
    /\ Memory => memoryStorage.stats.totalRequests < MaxForwards
    /\ Handle(Request("POST", path, Undefined, urlHeader, <<"json", EmptyObj>>, Undefined),
              "forward", up, d)

\* a POST to /v1/chat/completions that may carry an x-target-api-key header and an
\* Authorization header of the client's own
ForwardKeyed(auths, headers, keys, ups) ==
  \E auth \in auths, urlHeader \in headers, keyHeader \in keys, up \in ups :
    /\ Memory => memoryStorage.stats.totalRequests < MaxForwards
    /\ Handle([Request("POST", CHAT, auth, urlHeader, <<"json", EmptyObj>>, Undefined)
                 EXCEPT !.keyHeader = keyHeader],
              "forward", up, 0)

\* a POST to /v1/chat/completions, while the in-memory worker has counted fewer
\* than MaxCounted requests
ForwardCounted(ups) ==
  \E up \in ups :
    /\ Memory => memoryStorage.stats.totalRequests < MaxCounted
    /\ Handle(Request("POST", CHAT, Undefined, Undefined, <<"json", EmptyObj>>, Undefined),
              "forward", up, 0)

\* POST /admin/test-connection; up is the outcome of the probe if it is issued
TestConnection(auths, bodies, ups) ==
  \E auth \in auths, body \in bodies, up \in ups :
    /\ PrefixAllowed(<<"admin">>)
    /\ Handle(Request("POST", <<"admin", "test-connection">>, auth, Undefined, body, Undefined),
              "read", up, 0)

\* what a request is to the store, by its method and path
KindOf(method, path) ==
  CASE method = "POST" /\ path \in LLM_PATHS -> "forward"
    [] method = "POST" /\ path # <<>> /\ path[Len(path)] = "config" -> "write"
    [] method = "POST" /\ path # <<>> /\ path[Len(path)] = "logs" -> "submit"
    [] method = "DELETE" /\ path # <<>> /\ path[Len(path)] = "logs" -> "clear"
    [] OTHER -> "read"

\* any inbound request: scheme, method, path, Authorization header and body drawn
\* from the given sets
Inbound(schemes, methods, paths, auths, bodies, ups) ==
  \E scheme \in schemes, method \in methods, path \in paths,
     auth \in auths, body \in bodies, up \in ups :
    /\ Memory /\ KindOf(method, path) = "forward" =>
         memoryStorage.stats.totalRequests < MaxForwards
    /\ Handle([Request(method, path, auth, Undefined, body, Undefined) EXCEPT !.scheme = scheme],
              KindOf(method, path), up, 0)

Tick == now < MaxTime /\ now' = now + 1
        /\ UNCHANGED <<variant, env, storage, memoryStorage, last, recent, appended, calls>>

-----------------------------------------------------------------------------
(* Store requests in flight.  A POST to the logs or the config route is     *)
(* followed through its suspension points.  In the Durable Object these are *)
(* `await request.json()`, `await this.state.storage.get(key)` and          *)
(* `await this.state.storage.put(key, value)` (storage.js 59-60, 74-75,     *)
(* 118-129, 161-176); the object's runtime delivers no event other than the *)
(* completion of storage operations while one of them is pending.  In the   *)
(* in-memory worker the only suspension point is `await request.json()`     *)
(* (part_001 137, 187): what follows runs without interruption.             *)
(* calls[i] = [pc, key, data, local, status]: pc is "idle", "json" (body    *)
(* being read), "get", "put" (storage operation pending) or "done"; key is  *)
(* "logs" or "config"; data the body; local the value the handler holds     *)
(* between get and put; status the response's.                              *)

\* the request the Durable Object receives from handleStorageRequest
CallRequest(c) == StubRequest("POST", <<c.key>>, <<"json", c.data>>)
\* the same request as sent to the in-memory worker
M_CallRequest(c) == Request("POST", <<"admin", c.key>>, Admin, Undefined, <<"json", c.data>>, Undefined)

\* a runtime that delivers events whatever is pending
InputGateAbsent(cs) == TRUE

\* a gate that closes for writes only
InputGateOnPut(cs) == \A j \in DOMAIN cs : cs[j].pc # "put"

\* the object's input gate: open when no storage operation is pending
InputGateOpen(cs) == \A j \in DOMAIN cs : cs[j].pc \notin {"get", "put"}

StoreUnchanged == UNCHANGED <<variant, env, now, last, recent, appended>>

\* request i arrives and its handler starts reading the body
Arrive(i, keys, bodies) ==
  \E key \in keys, data \in bodies :
    /\ calls[i].pc = "idle"
    /\ i > 1 => calls[i - 1].pc # "idle"
    /\ Durable => InputGateOpen(calls)
    /\ calls' = [calls EXCEPT ![i] = [IdleCall EXCEPT !.pc = "json", !.key = key, !.data = data]]
    /\ UNCHANGED <<storage, memoryStorage>>
    /\ StoreUnchanged

\* the body of request i is read.  Durable Object: setConfig / addLog validate and
\* issue the get, or answer 400.  In-memory worker: handleConfig / handleLogs run to
\* their response.
Parsed(i) ==
  /\ calls[i].pc = "json"
  /\ Durable => InputGateOpen(calls)
  /\ IF Durable
     THEN /\ calls' = [calls EXCEPT ![i] =
                IF DO_fetch(storage, CallRequest(calls[i]), now, i).status = 200
                THEN [@ EXCEPT !.pc = "get"]
                ELSE [@ EXCEPT !.pc = "done",
                                !.status = DO_fetch(storage, CallRequest(calls[i]), now, i).status]]
          /\ UNCHANGED <<storage, memoryStorage>>
     ELSE /\ memoryStorage' = M_fetch(memoryStorage, M_CallRequest(calls[i]), env, <<"throw">>, 0, now, i).st
          /\ calls' = [calls EXCEPT ![i] =
                [@ EXCEPT !.pc = "done",
                          !.status = M_fetch(memoryStorage, M_CallRequest(calls[i]), env,
                                             <<"throw">>, 0, now, i).status]]
          /\ UNCHANGED storage
  /\ StoreUnchanged

\* the get of request i completes: the handler computes the new value from the
\* value read and issues the put
StorageGot(i) ==
  /\ calls[i].pc = "get"
  /\ calls' = [calls EXCEPT ![i] =
        [@ EXCEPT !.pc = "put",
                  !.local = DO_fetch(storage, CallRequest(calls[i]), now, i).st[calls[i].key]]]
  /\ UNCHANGED <<storage, memoryStorage>>
  /\ StoreUnchanged

\* the put of request i completes and the handler responds
StoragePut(i) ==
  /\ calls[i].pc = "put"
  /\ storage' = [storage EXCEPT ![calls[i].key] = calls[i].local]
  /\ calls' = [calls EXCEPT ![i] = [@ EXCEPT !.pc = "done", !.status = 200]]
  /\ UNCHANGED memoryStorage
  /\ StoreUnchanged

-----------------------------------------------------------------------------
(* Forwarded requests in flight.  handleChatCompletion suspends at          *)
(* `await fetch(targetRequest)` and, when the upstream answers with a       *)
(* status that is not ok, at `await response.clone().text()`                *)
(* (index.js 490, 504; part_001 560, 574); what follows, up to the entry    *)
(* being handed to the store, runs without interruption.  For these calls   *)
(* key is "forward", data is what the upstream does, and local is the       *)
(* history of the order in which the upstream calls finished (0: not yet).  *)

ForwardRequest == Request("POST", CHAT, Undefined, Undefined, <<"json", EmptyObj>>, Undefined)

\* the number of upstream calls that have finished
Finished == Cardinality({j \in 1..MaxCalls : calls[j].key = "forward" /\ calls[j].local > 0})

\* request i arrives, resolves its target and calls the upstream
ForwardArrive(i, ups) ==
  \E up \in ups :
    /\ calls[i].pc = "idle"
    /\ i > 1 => calls[i - 1].pc # "idle"
    /\ calls' = [calls EXCEPT ![i] =
          [IdleCall EXCEPT !.pc = "upstream", !.key = "forward", !.data = up, !.local = 0]]
    /\ UNCHANGED <<storage, memoryStorage>>
    /\ StoreUnchanged

\* the rest of handleChatCompletion for request i: the response is built, the
\* entry is logged, the response returned
LogAndRespond(i, order) ==
  /\ storage' = IF Durable THEN fetch(storage, ForwardRequest, env, calls[i].data, 0, now, i).st
                ELSE storage
  /\ memoryStorage' =
       IF Memory THEN M_fetch(memoryStorage, ForwardRequest, env, calls[i].data, 0, now, i).st
       ELSE memoryStorage
  /\ calls' = [calls EXCEPT ![i] =
        [@ EXCEPT !.pc = "done", !.local = order,
                  !.status = forwardRequest(DEFAULT_TARGET, calls[i].data)]]
  /\ StoreUnchanged

\* the upstream call of request i finishes: it threw or answered ok and the handler
\* goes on, or it answered with an error status and the handler reads the body
UpstreamDone(i) ==
  /\ calls[i].pc = "upstream"
  /\ IF calls[i].data[1] = "response" /\ ~IsOk(calls[i].data[2])
     THEN /\ calls' = [calls EXCEPT ![i] = [@ EXCEPT !.pc = "body", !.local = Finished + 1]]
          /\ UNCHANGED <<storage, memoryStorage>>
          /\ StoreUnchanged
     ELSE LogAndRespond(i, Finished + 1)

\* the error body of request i has been read
BodyRead(i) ==
  /\ calls[i].pc = "body"
  /\ LogAndRespond(i, calls[i].local)

-----------------------------------------------------------------------------
(* SpecLog: the log and the statistics.  Either worker, requests to the     *)
(* logs and stats routes and to the three LLM endpoints.                    *)

\* either worker, deployed for development, with empty stores and no request in
\* flight: the initial state of this and of the specifications below that say no other
InitLog == variant \in {"durable", "memory"} /\ env = BaseEnv /\ InitStores

NextLog ==
  \/ Forward(CHAT, NoHeader, Upstreams, {0})
  \/ Forward(COMPLETIONS, NoHeader, Upstreams, {0})
  \/ Forward(EMBEDDINGS, NoHeader, Upstreams, {0})
  \/ LogsAppend({Admin}, LogBodies)
  \/ LogsRead({Admin})
  \/ LogsClear({Admin})
  \/ StatsRead({Admin})

SpecLog == InitLog /\ [][NextLog]_vars

-----------------------------------------------------------------------------
(* SpecConfig: the configuration record.  Either worker, reads and writes   *)
(* of the config route with every kind of Authorization header, while the   *)
(* clock advances.                                                          *)

NextConfig ==
  \/ ConfigRead(Auths)
  \/ ConfigWrite(Auths, {<<"json", UrlU>>, <<"json", UrlV>>, <<"json", Password>>,
                         <<"json", [targetApiUrl |-> Num(7)]>>, <<"invalid">>})
  \/ Tick

SpecConfig == InitLog /\ [][NextConfig]_vars

-----------------------------------------------------------------------------
(* SpecResolve: the target of a forwarded request.  Either worker, with and *)
(* without a default upstream URL; configuration writes and chat requests   *)
(* with and without the x-target-api-url header.                            *)

\* deployments without a default upstream URL, and with one that ends in one or
\* in two slashes
InitResolve ==
  /\ variant \in {"durable", "memory"}
  /\ env \in {BaseEnv, [BaseEnv EXCEPT !.TARGET_API_URL = Str("E", 1)],
              [BaseEnv EXCEPT !.TARGET_API_URL = Str("E", 2)]}
  /\ InitStores

NextResolve ==
  \/ ConfigWrite({Admin}, {<<"json", UrlU>>, <<"json", UrlV>>, <<"json", [targetApiUrl |-> Str("U", 2)]>>})
  \/ Forward(CHAT, {Undefined, Str("X", 1), Str("", 0), Str("X", 2)}, {<<"response", 200>>}, {0})

SpecResolve == InitResolve /\ [][NextResolve]_vars

-----------------------------------------------------------------------------
(* SpecPair: both workers side by side, sent the same requests.             *)

InitPair == variant = "both" /\ env = BaseEnv /\ InitStores

NextPair ==
  \/ ConfigRead({Admin})
  \/ ConfigWrite({Admin}, {<<"json", UrlU>>, <<"invalid">>})
  \/ LogsRead({Admin})
  \/ LogsAppend({Admin}, LogBodies)
  \/ LogsClear({Admin})
  \/ StatsRead({Admin})
  \/ Forward(CHAT, NoHeader, Upstreams, {0})

SpecPair == InitPair /\ [][NextPair]_vars

-----------------------------------------------------------------------------
(* SpecForward: the three LLM endpoints.  Either worker; the upstream       *)
(* answers, answers with an error status, or cannot be called at all.       *)

NextForward ==
  \/ Forward(CHAT, TargetHeaders, Upstreams, {0})
  \/ Forward(COMPLETIONS, TargetHeaders, Upstreams, {0})
  \/ Forward(EMBEDDINGS, TargetHeaders, Upstreams, {0})

SpecForward == InitLog /\ [][NextForward]_vars

-----------------------------------------------------------------------------
(* SpecQuery: reading the log.  Either worker; entries are submitted and    *)
(* the log is read with every kind of limit parameter.                      *)

NextQuery ==
  \/ LogsAppend({Admin}, ValidLogBodies)
  \* ?limit= absent, non-numeric ("abc"), and the integers 1, 2, 0, -1
  \/ LogsQuery({Admin}, {Undefined, Str("abc", 0), Num(1), Num(2), Num(0), Num(-1)})

SpecQuery == InitLog /\ [][NextQuery]_vars

-----------------------------------------------------------------------------
(* SpecFrame: every store operation and the connection probe.  Either       *)
(* worker, requests of an administrator.                                    *)

NextFrame ==
  \/ ConfigRead({Admin})
  \/ ConfigWrite({Admin}, {<<"json", UrlU>>, <<"json", Password>>})
  \/ LogsRead({Admin})
  \/ LogsAppend({Admin}, ValidLogBodies)
  \/ LogsClear({Admin})
  \/ StatsRead({Admin})
  \* bodies of POST /admin/test-connection: a URL to probe, none, unparsable; what
  \* the probed server does: answers (fetch resolves with a status of 200 or more),
  \* or cannot be reached
  \/ TestConnection({Admin}, {<<"json", UrlU>>, <<"json", EmptyObj>>, <<"invalid">>},
                    {<<"response", 200>>, <<"response", 401>>, <<"response", 403>>,
                     <<"response", 404>>, <<"response", 500>>, <<"throw">>})

SpecFrame == InitLog /\ [][NextFrame]_vars

-----------------------------------------------------------------------------
(* SpecGate: the entry of the worker.  Either worker, deployed for          *)
(* development or for production; requests of every method, over http and   *)
(* https, with and without credentials.                                     *)

\* development and production deployments
InitGate ==
  /\ variant \in {"durable", "memory"}
  /\ env \in {BaseEnv, [BaseEnv EXCEPT !.ENVIRONMENT = "production"]}
  /\ InitStores

NextGate ==
  \* paths a preflight request is sent to
  \/ Inbound(Schemes, {"OPTIONS"},
             {CHAT, <<"health">>, <<"admin">>, <<"admin", "config">>, <<"admin", "logs">>,
              STORAGE_CONFIG_PATH},
             {Undefined, Admin}, {NoBody}, {<<"throw">>})
  \/ Inbound(Schemes, {"GET", "POST"}, {<<"admin", "config">>, STORAGE_CONFIG_PATH}, {Undefined, Admin}, {<<"json", UrlU>>}, {<<"throw">>})
  \/ Inbound(Schemes, {"POST", "DELETE"}, {<<"admin", "logs">>, STORAGE_LOGS_PATH}, {Admin}, {<<"json", [endpoint |-> Str("/custom", 0), timestamp |-> Str("T", 0)]>>}, {<<"throw">>})
  \/ Inbound(Schemes, {"POST"}, {CHAT}, {Undefined}, {<<"json", EmptyObj>>}, {<<"response", 200>>})
  \/ Inbound(Schemes, {"POST"}, {<<"admin", "test-connection">>}, {Admin}, {<<"json", UrlU>>}, {<<"response", 200>>})
  \/ Inbound(Schemes, {"GET", "PUT"}, {<<"health">>, <<"admin">>}, {Undefined}, {NoBody}, {<<"throw">>})

SpecGate == InitGate /\ [][NextGate]_vars

-----------------------------------------------------------------------------
(* SpecValidate: validation of configuration writes.  Either worker;        *)
(* partial records with fields of every type, while the clock advances.     *)

NextValidate ==
  \/ ConfigRead({Admin})
  \* partial records whose fields are strings, truthy non-strings (a number, an
  \* object, an array), and falsy non-strings (0, false, null)
  \/ ConfigWrite({Admin}, {<<"json", UrlU>>, <<"json", Password>>, <<"json", [targetApiUrl |-> Str("", 0)]>>,
                           <<"json", [targetApiUrl |-> Num(7)]>>, <<"json", [adminPassword |-> Num(7)]>>,
                           <<"json", [targetApiUrl |-> <<"object", EmptyObj>>]>>,
                           <<"json", [adminPassword |-> <<"array", <<>>>>]>>,
                           <<"json", [targetApiUrl |-> Num(0)]>>, <<"json", [adminPassword |-> Bool(FALSE)]>>,
                           <<"json", [targetApiUrl |-> Null]>>})
  \/ Tick

SpecValidate == InitLog /\ [][NextValidate]_vars

-----------------------------------------------------------------------------
(* SpecReject: accepted and rejected input.  Either worker; configuration   *)
(* writes and log submissions, valid and invalid, between forwarded         *)
(* requests, while the clock advances.                                      *)

NextReject ==
  \/ ConfigWrite({Admin}, {<<"json", UrlU>>, <<"json", [targetApiUrl |-> Num(7)]>>, <<"invalid">>})
  \/ LogsAppend({Admin}, LogBodies)
  \/ Forward(CHAT, NoHeader, {<<"response", 200>>}, {0})
  \/ Tick

SpecReject == InitLog /\ [][NextReject]_vars

-----------------------------------------------------------------------------
(* SpecCredential: the admin credential.  Either worker; the credential is  *)
(* written to the configuration record and the admin routes are requested   *)
(* with no token, the static credential and the stored one.                 *)

NextCredential ==
  \/ ConfigWrite(Credentials, {<<"json", Password>>, <<"json", UrlU>>})
  \/ ConfigRead(Credentials)
  \/ StatsRead(Credentials)
  \/ Tick

SpecCredential == InitLog /\ [][NextCredential]_vars

-----------------------------------------------------------------------------
(* SpecRouter: dispatch by method and path.  Either worker; requests of     *)
(* every method to the health, LLM and admin routes and to paths that are   *)
(* no route.                                                                *)

NextRouter ==
  \/ Inbound({"https"}, Methods,
             {<<>>, <<"health">>, CHAT, COMPLETIONS, EMBEDDINGS, <<"unknown">>, <<"v1", "models">>},
             {Undefined}, {<<"json", EmptyObj>>}, {<<"response", 200>>})
  \/ Inbound({"https"}, Methods,
             {<<"admin">>, <<"admin", "config">>, <<"admin", "logs">>, <<"admin", "stats">>},
             {Admin}, {<<"json", UrlU>>}, {<<"throw">>})

SpecRouter == InitLog /\ [][NextRouter]_vars

-----------------------------------------------------------------------------
(* SpecConcurrent: store requests in flight together.  Either worker; log   *)
(* submissions and configuration writes arrive while earlier ones are still *)
(* being handled.                                                           *)

\* the entries submitted are valid or lack their timestamp; the partial records
\* written have disjoint fields
NextConcurrent ==
  \/ \E i \in 1..MaxCalls :
       Arrive(i, {"logs"}, {[endpoint |-> Str("/custom", 0), timestamp |-> Str("T", 0)],
                            [endpoint |-> Str("/custom", 0)]})
  \/ \E i \in 1..MaxCalls : Arrive(i, {"config"}, {UrlU, Password})
  \/ \E i \in 1..MaxCalls : Parsed(i)
  \/ \E i \in 1..MaxCalls : StorageGot(i)
  \/ \E i \in 1..MaxCalls : StoragePut(i)

SpecConcurrent == InitLog /\ [][NextConcurrent]_vars

-----------------------------------------------------------------------------
(* SpecInFlight: forwarded requests in flight together.  Either worker;     *)
(* chat requests arrive while the upstream calls of earlier ones are        *)
(* pending, and the upstream answers them in any order.                     *)

NextInFlight ==
  \/ \E i \in 1..MaxCalls : ForwardArrive(i, Upstreams)
  \/ \E i \in 1..MaxCalls : UpstreamDone(i)
  \/ \E i \in 1..MaxCalls : BodyRead(i)

SpecInFlight == InitLog /\ [][NextInFlight]_vars

-----------------------------------------------------------------------------
(* SpecFault: what can go wrong while a request is handled.  Either worker, *)
(* deployed with or without the binding of the storage object; bodies that  *)
(* do not parse, an upstream that cannot be called or that fails.           *)

InitFault ==
  /\ variant \in {"durable", "memory"}
  /\ env \in {BaseEnv, [BaseEnv EXCEPT !.LLM_PROXY_STORAGE = Undefined]}
  /\ InitStores

NextFault ==
  \/ ConfigRead({Admin})
  \/ ConfigWrite({Admin}, {<<"json", UrlU>>, <<"invalid">>})
  \/ LogsAppend({Admin}, {<<"json", [endpoint |-> Str("/custom", 0), timestamp |-> Str("T", 0)]>>, <<"invalid">>})
  \/ Forward(CHAT, TargetHeaders, Upstreams, {0})
  \/ TestConnection({Admin}, {<<"json", UrlU>>, <<"invalid">>}, {<<"response", 200>>, <<"throw">>})

SpecFault == InitFault /\ [][NextFault]_vars

-----------------------------------------------------------------------------
(* SpecKey: the key sent upstream.  Either worker, deployed with or without *)
(* a default key; a stored configuration with a URL and with a field named   *)
(* like a key; requests with no key header, with one, and with an empty one. *)

InitKey ==
  /\ variant \in {"durable", "memory"}
  /\ env \in {BaseEnv, [BaseEnv EXCEPT !.TARGET_API_KEY = Str("K", 0)]}
  /\ InitStores

NextKey ==
  \/ ConfigWrite({Admin}, {<<"json", UrlU>>, <<"json", [targetApiKey |-> Str("S", 0)]>>})
  \/ ForwardKeyed({Undefined, <<"bearer", "client">>}, {Undefined, Str("X", 1), Str("", 1)},
                  {Undefined, Str("H", 0), Str("", 0)}, {<<"response", 200>>, <<"throw">>})

SpecKey == InitKey /\ [][NextKey]_vars

-----------------------------------------------------------------------------
(* SpecIdent: the ids of the log entries.  Either worker; entries submitted  *)
(* with an id of the caller's (the same one, another one) and without one,   *)
(* entries of forwarded requests, a clock that ticks between them.           *)

NextIdent ==
  \/ LogsAppend({Admin},
       {<<"json", [endpoint |-> Str("/custom", 0), timestamp |-> Str("T", 0), id |-> Str("dup", 0)]>>,
        <<"json", [endpoint |-> Str("/custom", 0), timestamp |-> Str("T", 0), id |-> Num(7)]>>,
        <<"json", [endpoint |-> Str("/custom", 0), timestamp |-> Str("T", 0)]>>})
  \/ Forward(CHAT, NoHeader, {<<"response", 200>>}, {0})
  \/ LogsClear({Admin})
  \/ Tick

SpecIdent == InitLog /\ [][NextIdent]_vars

-----------------------------------------------------------------------------
(* SpecRate: the success rate.  Either worker; forwarded requests that the  *)
(* upstream answers or turns down, entries submitted with and without a      *)
(* status, reads of the statistics.                                          *)

NextRate ==
  \/ ForwardCounted({<<"response", 200>>, <<"response", 429>>})
  \/ LogsAppend({Admin}, ValidLogBodies)
  \/ StatsRead({Admin})

SpecRate == InitLog /\ [][NextRate]_vars

-----------------------------------------------------------------------------
(* Requests by shape *)

IsForward(r) == r.method = "POST" /\ r.path \in LLM_PATHS

\* a step in which a request was handled (Tick changes the clock alone)
handled == <<storage, memoryStorage, last, recent, appended>>
Handled == handled' # handled

\* the newest entry of a non-empty log
Newest(logs) == logs[Len(logs)]

-----------------------------------------------------------------------------
(* C1. The log of either store never holds more than MaxLogs (1000) entries; *)
(* it holds, in insertion order, exactly the newest entries appended since  *)
(* the last clear, and once more than MaxLogs were appended it holds         *)
(* exactly MaxLogs of them.                                                  *)

LogIsBoundedRing ==
  /\ Durable =>
       /\ Len(storage.logs) <= MaxLogs
       /\ storage.logs = recent.d
       /\ appended.d > MaxLogs => Len(storage.logs) = MaxLogs
  /\ Memory =>
       /\ Len(memoryStorage.logs) <= MaxLogs
       /\ memoryStorage.logs = recent.m
       /\ appended.m > MaxLogs => Len(memoryStorage.logs) = MaxLogs

\* the durable log has overflowed and holds distinct entries, the in-memory one
\* has in another run
LogOverflowed ==
  /\ variant = "durable"
  /\ appended.d > MaxLogs
  /\ Len(storage.logs) = MaxLogs
  /\ storage.logs[1] # storage.logs[MaxLogs]
  /\ last.req.method = "POST" /\ last.d.status = 200

(* C2. Every forwarded LLM request leaves exactly one new entry in the log  *)
(* of the worker's store, carrying the endpoint path and the status that    *)
(* was returned.                                                            *)

\* logs1 is logs0 with one entry e pushed (and the oldest dropped at the cap)
OneNewEntry(logs0, logs1, e) ==
  /\ logs1 # <<>>
  /\ Newest(logs1) = e
  /\ Len(logs1) = (IF Len(logs0) < MaxLogs THEN Len(logs0) + 1 ELSE MaxLogs)
  /\ \A i \in 1..(Len(logs1) - 1) : logs1[i] = logs0[Len(logs0) - (Len(logs1) - 1) + i]

LoggedAs(e, r, resp) ==
  /\ Get(e, "endpoint") = Str(EndpointOf(r.path), 0)
  /\ Get(e, "status") = Num(resp.status)

ForwardLogsOnce ==
  [][Handled /\ IsForward(last'.req) =>
       /\ Durable => /\ storage'.logs # <<>>
                     /\ OneNewEntry(storage.logs, storage'.logs, Newest(storage'.logs))
                     /\ LoggedAs(Newest(storage'.logs), last'.req, last'.d)
       /\ Memory => /\ memoryStorage'.logs # <<>>
                    /\ OneNewEntry(memoryStorage.logs, memoryStorage'.logs, Newest(memoryStorage'.logs))
                    /\ LoggedAs(Newest(memoryStorage'.logs), last'.req, last'.m)]_vars

(* C7. The statistics GET stats returns are those of the current log:       *)
(* totalRequests is the number of retained entries, the success rate counts *)
(* the retained entries with status in [200,300), avgResponseTime is the    *)
(* rounded mean of their durations.                                         *)

IsStatsRead(r, resp) ==
  r.method = "GET" /\ Len(r.path) >= 1 /\ r.path[Len(r.path)] = "stats" /\ resp.status = 200

StatsDerivedFrom(resp, logs, config) ==
  /\ resp.body[1] = "stats"
  /\ resp.body[2] = StatsOf(Len(logs), CountSuccess(logs), SumDuration(logs), config)

StatsAreDerived ==
  /\ Durable /\ IsStatsRead(last.req, last.d) =>
       StatsDerivedFrom(last.d, storage.logs, storage.config)
  /\ Memory /\ IsStatsRead(last.req, last.m) =>
       StatsDerivedFrom(last.m, memoryStorage.logs, memoryStorage.config)

(* C8. Whenever the log is empty, getStats returns totalRequests 0,         *)
(* successRate 0 and avgResponseTime 0.                                     *)

ZeroStats(resp) ==
  /\ resp.body[1] = "stats"
  /\ resp.body[2].totalRequests = 0
  /\ resp.body[2].successRate = 0
  /\ resp.body[2].avgResponseTime = 0

EmptyLogZeroStats ==
  /\ Durable /\ IsStatsRead(last.req, last.d) /\ storage.logs = <<>> => ZeroStats(last.d)
  /\ Memory /\ IsStatsRead(last.req, last.m) /\ memoryStorage.logs = <<>> => ZeroStats(last.m)

-----------------------------------------------------------------------------
(* C3. Without an x-target-api-url header, a stored targetApiUrl is the     *)
(* target of a forwarded request (one trailing slash stripped), not the     *)
(* static default.                                                          *)

StoredConfigWins ==
  IsForward(last.req) /\ last.req.urlHeader = Undefined =>
    /\ Durable /\ Truthy(Get(storage.config, "targetApiUrl")) =>
         last.d.out = StripSlash(Get(storage.config, "targetApiUrl"))
    /\ Memory /\ Truthy(Get(memoryStorage.config, "targetApiUrl")) =>
         last.m.out = StripSlash(Get(memoryStorage.config, "targetApiUrl"))

(* C4. A forwarded request carrying a non-empty x-target-api-url header X   *)
(* is sent to X with one trailing slash stripped, whatever the stored       *)
(* configuration and the static default are.                                *)

HeaderWins ==
  IsForward(last.req) /\ Truthy(last.req.urlHeader) =>
    /\ Durable => last.d.out = StripSlash(last.req.urlHeader)
    /\ Memory => last.m.out = StripSlash(last.req.urlHeader)

\* C4 as stated: for every header value the request carries, the empty one included
AnyHeaderWins ==
  IsForward(last.req) /\ last.req.urlHeader # Undefined =>
    /\ Durable => last.d.out = StripSlash(last.req.urlHeader)
    /\ Memory => last.m.out = StripSlash(last.req.urlHeader)

\* the header decided against a stored URL and a default URL
HeaderBeatStoredAndDefault ==
  /\ variant = "durable"
  /\ Truthy(Get(storage.config, "targetApiUrl"))
  /\ Truthy(env.TARGET_API_URL)
  /\ IsForward(last.req)
  /\ last.req.urlHeader = Str("X", 1)
  /\ last.d.out = Str("X", 0)

(* C5. The admin routes reach the store: an authenticated request to        *)
(* /admin/config, /admin/logs or /admin/stats is never answered 404, and    *)
(* after an authenticated POST /admin/config with a valid partial record an *)
(* authenticated GET /admin/config returns a record with the written fields.*)

IsAdminStoreRoute(r) ==
  Len(r.path) = 2 /\ r.path[1] = "admin" /\ r.path[2] \in {"config", "logs", "stats"}

ValidConfigBody(body) ==
  /\ body[1] = "json"
  /\ \A k \in DOMAIN body[2] : IsString(body[2][k])

AdminGetConfig == Request("GET", <<"admin", "config">>, Admin, Undefined, NoBody, Undefined)

Contains(body, data) ==
  /\ body[1] = "object"
  /\ \A k \in DOMAIN data : k \in DOMAIN body[2] /\ body[2][k] = data[k]

AdminRoutesReachStore ==
  IsAdminStoreRoute(last.req) /\ last.req.auth = Admin =>
    /\ Durable => last.d.status # 404
    /\ Memory => last.m.status # 404
    /\ last.req.method = "POST" /\ last.req.path[2] = "config" /\ ValidConfigBody(last.req.body) =>
         /\ Durable => Contains(fetch(storage, AdminGetConfig, env, <<"throw">>, 0, now, 0).body,
                                last.req.body[2])
         /\ Memory => Contains(M_fetch(memoryStorage, AdminGetConfig, env, <<"throw">>, 0, now, 0).body,
                               last.req.body[2])

(* C6. A request to an /admin/<sub-path> route whose bearer token is        *)
(* missing or is not the configured admin credential is answered 401 and    *)
(* changes neither the configuration record nor the log.                    *)

IsAdminApi(r) == Len(r.path) >= 2 /\ r.path[1] = "admin" /\ r.path # <<"admin", "">>

HasAdminCredential(r) ==
  r.auth # Undefined /\ r.auth[1] = "bearer" /\ Str(r.auth[2], 0) = env.ADMIN_PASSWORD

UnauthorizedIsRejected ==
  [][Handled /\ IsAdminApi(last'.req) /\ ~HasAdminCredential(last'.req) =>
       /\ Durable => last'.d.status = 401 /\ storage' = storage
       /\ Memory => /\ last'.m.status = 401
                    /\ memoryStorage'.config = memoryStorage.config
                    /\ memoryStorage'.logs = memoryStorage.logs]_vars

(* C9. The two workers are observationally equivalent: sent the same        *)
(* requests, they answer with the same status and the same body up to       *)
(* server-assigned ids and timestamps.                                      *)

Scrub(o) == [k \in DOMAIN o \ {"id", "timestamp", "updatedAt", "lastUpdated"} |-> o[k]]

ScrubBody(body) ==
  CASE body[1] \in {"object", "stats"} -> <<body[1], Scrub(body[2])>>
    [] body[1] = "array" -> <<"array", [i \in 1..Len(body[2]) |-> Scrub(body[2][i])]>>
    [] OTHER -> body

WorkersAgree ==
  variant = "both" =>
    /\ last.d.status = last.m.status
    /\ ScrubBody(last.d.body) = ScrubBody(last.m.body)

(* C10. A successful setConfig merges: every field of the update is stored, *)
(* every other field keeps its value, and updatedAt is stamped with the     *)
(* time of the write.                                                       *)

IsConfigWrite(r) == r.method = "POST" /\ Len(r.path) >= 1 /\ r.path[Len(r.path)] = "config"

Merged(config0, config1, data, t) ==
  /\ DOMAIN config1 = DOMAIN config0 \cup DOMAIN data \cup {"updatedAt"}
  /\ \A k \in DOMAIN data \ {"updatedAt"} : config1[k] = data[k]
  /\ \A k \in DOMAIN config0 \ (DOMAIN data \cup {"updatedAt"}) : config1[k] = config0[k]
  /\ config1["updatedAt"] = Iso(t)

SetConfigMerges ==
  [][Handled /\ IsConfigWrite(last'.req) =>
       /\ Durable /\ last'.d.status = 200 =>
            Merged(storage.config, storage'.config, last'.req.body[2], now')
       /\ Memory /\ last'.m.status = 200 =>
            Merged(memoryStorage.config, memoryStorage'.config, last'.req.body[2], now')]_vars

\* two updates with disjoint fields, the second at a later time: both are stored
DisjointUpdatesStored ==
  /\ variant = "durable"
  /\ IsConfigWrite(last.req) /\ last.d.status = 200
  /\ last.req.body = <<"json", Password>>
  /\ Get(storage.config, "targetApiUrl") = Str("U", 1)
  /\ Get(storage.config, "adminPassword") = Str("pw", 0)
  /\ Get(storage.config, "updatedAt") = Iso(MaxTime)

-----------------------------------------------------------------------------
(* C11. When the outbound call of a forwarded request raises (the upstream  *)
(* cannot be reached, or the target URL is malformed), the client is        *)
(* answered 502 with the body {error: 'Failed to forward request', ..}:     *)
(* never 500, never an unhandled fault.                                     *)

\* the outbound call of the request handled last raised, given the resolved target
Raised(resp) == last.up = <<"throw">> \/ ~Truthy(resp.out)

Is502(resp) == resp.status = 502 /\ resp.body = <<"error", "Failed to forward request">>

ForwardFailureIs502 ==
  IsForward(last.req) =>
    /\ Durable /\ Raised(last.d) => Is502(last.d)
    /\ Memory /\ Raised(last.m) => Is502(last.m)

\* an unreachable upstream, answered 502 by the durable worker
UnreachableAnswered502 ==
  /\ variant = "durable"
  /\ IsForward(last.req)
  /\ last.up = <<"throw">>
  /\ last.d.out = DEFAULT_TARGET
  /\ Is502(last.d)

-----------------------------------------------------------------------------
(* C12. Round trip: after a log submission is accepted, reading the log     *)
(* with limit 1 returns exactly one entry; it has the fields of the         *)
(* submitted entry, except that timestamp is the server's time and id is    *)
(* added.                                                                   *)

IsLogSubmit(r) == r.method = "POST" /\ r.path # <<>> /\ r.path[Len(r.path)] = "logs"

\* the request GET <path>?limit=<limit> of an administrator
GetLogs(path, limit) == Request("GET", path, Admin, Undefined, NoBody, limit)

CALLER_FIELDS == {"endpoint", "targetApi", "status", "duration", "error"}

\* body is a one-entry array whose entry is e with the server's id and timestamp
ReturnsEntry(body, e, t) ==
  /\ body[1] = "array"
  /\ Len(body[2]) = 1
  /\ \A k \in CALLER_FIELDS : Get(body[2][1], k) = Get(e, k)
  /\ DOMAIN body[2][1] = DOMAIN e \cup {"id", "timestamp"}
  /\ body[2][1]["timestamp"] = Iso(t)
  /\ body[2][1]["id"] = generateId(t, 0)

AppendThenGetOne ==
  IsLogSubmit(last.req) =>
    /\ Durable /\ last.d.status = 200 =>
         ReturnsEntry(fetch(storage, GetLogs(last.req.path, Num(1)), env, <<"throw">>, 0, now, 0).body,
                      last.req.body[2], now)
    /\ Memory /\ last.m.status = 200 =>
         ReturnsEntry(M_fetch(memoryStorage, GetLogs(last.req.path, Num(1)), env, <<"throw">>, 0, now, 0).body,
                      last.req.body[2], now)

\* an entry with a status and a duration was accepted into a full log
SubmittedToFullLog ==
  /\ variant = "durable"
  /\ IsLogSubmit(last.req)
  /\ last.d.status = 200
  /\ Get(last.req.body[2], "status") = Num(201)
  /\ Get(last.req.body[2], "timestamp") = Str("T", 0)
  /\ Len(storage.logs) = MaxLogs
  /\ appended.d > MaxLogs

-----------------------------------------------------------------------------
(* C13. Reading the log with an integer limit returns the last              *)
(* min(limit, length) entries in insertion order, never more than limit;    *)
(* with the limit absent or non-numeric it returns the last                 *)
(* min(50, length) entries.                                                 *)

IsLogsRead(r) == r.method = "GET" /\ r.path # <<>> /\ r.path[Len(r.path)] = "logs"

Min(a, b) == IF a <= b THEN a ELSE b

\* the last n entries of logs, for 0 <= n <= Len(logs)
LastEntries(logs, n) == SubSeq(logs, Len(logs) - n + 1, Len(logs))

\* what a read with query parameter q is to return
Window(logs, q) ==
  IF q[1] = "number"
  THEN IF q[2] >= 0 THEN LastEntries(logs, Min(q[2], Len(logs))) ELSE <<>>
  ELSE LastEntries(logs, Min(DEFAULT_LIMIT, Len(logs)))

ReturnsWindow(resp, logs, q) ==
  resp.status = 200 =>
    /\ resp.body = <<"array", Window(logs, q)>>
    /\ q[1] = "number" => Len(resp.body[2]) <= (IF q[2] >= 0 THEN q[2] ELSE 0)

GetLogsReturnsLastLimit ==
  IsLogsRead(last.req) =>
    /\ Durable => ReturnsWindow(last.d, storage.logs, last.req.limit)
    /\ Memory => ReturnsWindow(last.m, memoryStorage.logs, last.req.limit)

-----------------------------------------------------------------------------
(* The routes on which a worker hands a request to its store operations:    *)
(* /api/storage/.. in the durable worker, /admin/.. in the in-memory one    *)

DurableStoreRoute(r) == Len(r.path) = 3 /\ SubSeq(r.path, 1, 2) = <<"api", "storage">>
MemoryStoreRoute(r) == Len(r.path) = 2 /\ r.path[1] = "admin"

(* C14. clearLogs is idempotent: from any state a clear succeeds and leaves *)
(* the log empty, and so does a second clear right after it.                *)

IsLogsClear(r) == r.method = "DELETE" /\ r.path # <<>> /\ r.path[Len(r.path)] = "logs"

\* the answer res to a clear: success, and the log it leaves is empty
ClearedOk(res) ==
  res.status = 200 /\ res.body = <<"message", "Logs cleared">> /\ res.st.logs = <<>>

ClearLogsIdempotent ==
  IsLogsClear(last.req) =>
    /\ Durable /\ DurableStoreRoute(last.req) =>
         /\ last.d.status = 200
         /\ storage.logs = <<>>
         /\ ClearedOk(fetch(storage, last.req, env, <<"throw">>, 0, now, 0))
    /\ Memory /\ MemoryStoreRoute(last.req) =>
         /\ last.m.status = 200
         /\ memoryStorage.logs = <<>>
         /\ ClearedOk(M_fetch(memoryStorage, last.req, env, <<"throw">>, 0, now, 0))

\* a log that had been filled by forwarded requests was cleared
FullLogCleared ==
  /\ variant = "memory"
  /\ IsLogsClear(last.req)
  /\ MemoryStoreRoute(last.req)
  /\ last.m.status = 200
  /\ memoryStorage.logs = <<>>
  /\ memoryStorage.stats.totalRequests = MaxForwards

-----------------------------------------------------------------------------
(* C15. Each store operation changes only what it owns: clearing and        *)
(* appending leave the configuration record as it was, a configuration      *)
(* write leaves the log as it was, and reads and the connection probe leave *)
(* both as they were.                                                       *)

IsProbe(r) == r.method = "POST" /\ r.path = <<"admin", "test-connection">>

ConfigKept ==
  /\ Durable => storage'.config = storage.config
  /\ Memory => memoryStorage'.config = memoryStorage.config

LogKept ==
  /\ Durable => storage'.logs = storage.logs
  /\ Memory => memoryStorage'.logs = memoryStorage.logs

OperationsKeepToTheirState ==
  [][Handled =>
       /\ IsLogsClear(last'.req) \/ IsLogSubmit(last'.req) => ConfigKept
       /\ IsConfigWrite(last'.req) => LogKept
       /\ last'.req.method = "GET" \/ IsProbe(last'.req) => ConfigKept /\ LogKept]_vars

\* the log was cleared while a configuration with both fields was stored
ClearedBesideConfig ==
  /\ variant = "durable"
  /\ IsLogsClear(last.req)
  /\ last.d.status = 200
  /\ storage.logs = <<>>
  /\ DOMAIN storage.config = {"targetApiUrl", "adminPassword", "updatedAt"}

(* C16. The connection probe is classified by the status of the answer      *)
(* alone: 401, 403, 404 or any status of 200 or more is answered 200        *)
(* {message: 'Connection successful', status}; any other status and any     *)
(* transport exception is answered 502 'Connection failed'; a body without  *)
(* targetApiUrl is answered 400 and no probe is issued.                     *)

ReachedByProbe(s) == s = 401 \/ s = 403 \/ s = 404 \/ s >= 200

ProbeClassified(resp, data, up) ==
  IF ~Truthy(Get(data, "targetApiUrl"))
  THEN resp.status = 400 /\ resp.out = Undefined
  ELSE IF up[1] = "response" /\ ReachedByProbe(up[2])
  THEN resp.status = 200 /\ resp.body = <<"connection", up[2]>>
  ELSE resp.status = 502 /\ resp.body = <<"error", "Connection failed">>

-----------------------------------------------------------------------------
(* C17. Every OPTIONS request, on any path and with or without an           *)
(* Authorization header, is answered with a CORS preflight response: it     *)
(* carries Access-Control-Allow-Origin, and Access-Control-Allow-Methods    *)
(* lists GET, POST, PUT, DELETE and OPTIONS.  (Requests the production      *)
(* check turns away are set aside: C18 is about them.)                      *)

TurnedAway(r) == env.ENVIRONMENT = "production" /\ r.scheme # "https"

IsPreflightResponse(resp) ==
  AllowOrigin(resp.body) /\ PREFLIGHT_METHODS \subseteq AllowMethods(resp.body)

OptionsIsPreflight ==
  last.req.method = "OPTIONS" /\ ~TurnedAway(last.req) =>
    /\ Durable => IsPreflightResponse(last.d)
    /\ Memory => IsPreflightResponse(last.m)

(* C18. In a production deployment a request whose scheme is not https is   *)
(* answered 403 before anything else happens: nothing is read from or       *)
(* written to the store, nothing is logged, no upstream is called, and the  *)
(* answer is the same whatever the credentials.                             *)

Answered403(resp) ==
  resp.status = 403 /\ resp.body = <<"text", "Please use HTTPS">> /\ resp.out = Undefined

InsecureIsTurnedAway ==
  [][Handled /\ TurnedAway(last'.req) =>
       /\ Durable => Answered403(last'.d) /\ storage' = storage
       /\ Memory => Answered403(last'.m) /\ memoryStorage' = memoryStorage]_vars

\* a configuration write over http turned away by a production deployment that
\* had accepted one over https
InsecureWriteTurnedAway ==
  /\ variant = "durable"
  /\ env.ENVIRONMENT = "production"
  /\ last.req.scheme = "http"
  /\ IsConfigWrite(last.req)
  /\ last.req.path = STORAGE_CONFIG_PATH
  /\ last.d.status = 403
  /\ Truthy(Get(storage.config, "targetApiUrl"))

-----------------------------------------------------------------------------
(* C19. setConfig answers 400 to every partial record in which a provided   *)
(* targetApiUrl or adminPassword is not a string, whatever the value        *)
(* (0, false and null included), and accepts every record whose provided    *)
(* fields are strings.                                                      *)

TYPED_FIELDS == {"targetApiUrl", "adminPassword"}

WellTyped(data) == \A k \in TYPED_FIELDS \cap DOMAIN data : IsString(data[k])

Validated(resp, data) == IF WellTyped(data) THEN resp.status = 200 ELSE resp.status = 400

SetConfigValidatesTypes ==
  IsConfigWrite(last.req) /\ BodyOk(last.req.body) =>
    /\ Durable /\ DurableStoreRoute(last.req) => Validated(last.d, last.req.body[2])
    /\ Memory /\ MemoryStoreRoute(last.req) => Validated(last.m, last.req.body[2])

-----------------------------------------------------------------------------
(* C20. A validation failure mutates nothing: when a configuration write is *)
(* answered 400 the stored record, updatedAt included, is what it was, and  *)
(* when a log submission is answered 400 the log and the in-memory counters *)
(* are what they were.                                                      *)

Rejected400KeepsStore ==
  [][Handled /\ (IsConfigWrite(last'.req) \/ IsLogSubmit(last'.req)) =>
       /\ Durable /\ last'.d.status = 400 => storage' = storage
       /\ Memory /\ last'.m.status = 400 => memoryStorage' = memoryStorage]_vars

\* a write rejected at a later time than the stored record's updatedAt, beside a
\* log that holds an entry
LateWriteRejected ==
  /\ variant = "durable"
  /\ IsConfigWrite(last.req)
  /\ last.d.status = 400
  /\ now = MaxTime
  /\ Get(storage.config, "updatedAt") = Iso(0)
  /\ Len(storage.logs) >= 1

-----------------------------------------------------------------------------
(* C21. The authentication check follows the stored configuration: once an  *)
(* admin credential p is stored in the configuration record, a request to  *)
(* an /admin/<sub-path> route whose bearer token is p is approved (it is    *)
(* not answered 401); the static credential env.ADMIN_PASSWORD is the       *)
(* credential only while none is stored.                                    *)

\* the credential in force: the stored adminPassword, else the static one
CredentialInForce(config) ==
  IF Truthy(Get(config, "adminPassword")) THEN Get(config, "adminPassword") ELSE env.ADMIN_PASSWORD

PresentsCredential(r, credential) ==
  r.auth # Undefined /\ r.auth[1] = "bearer" /\ Str(r.auth[2], 0) = credential

StoredCredentialApproves ==
  [][Handled /\ IsAdminApi(last'.req) =>
       /\ Durable /\ PresentsCredential(last'.req, CredentialInForce(storage.config)) =>
            last'.d.status # 401
       /\ Memory /\ PresentsCredential(last'.req, CredentialInForce(memoryStorage.config)) =>
            last'.m.status # 401]_vars

-----------------------------------------------------------------------------
(* C22. Router error classes follow the method and path table: a request to *)
(* an LLM path with a method other than GET or POST is answered 405, a      *)
(* method the table does not allow on a known route is answered 405 (not    *)
(* 404), and a request to a path that is no health, admin or LLM route is   *)
(* answered 404 whatever its method.  (OPTIONS is the preflight of C17.)    *)

\* the methods the routing table allows on a path; none on a path that is no route
AllowedMethods(path) ==
  CASE path \in {<<>>, <<"health">>} -> {"GET"}
    [] path \in LLM_PATHS -> {"POST"}
    [] path \in {<<"admin">>, <<"admin", "">>} -> {"GET"}
    [] path = <<"admin", "config">> -> {"GET", "POST"}
    [] path = <<"admin", "logs">> -> {"GET", "POST", "DELETE"}
    [] path = <<"admin", "stats">> -> {"GET"}
    [] path = <<"admin", "test-connection">> -> {"POST"}
    [] OTHER -> {}

ErrorClassOf(r, resp) ==
  /\ r.path \in LLM_PATHS /\ r.method \notin {"GET", "POST"} => resp.status = 405
  /\ AllowedMethods(r.path) # {} /\ r.method \notin AllowedMethods(r.path) => resp.status = 405
  /\ AllowedMethods(r.path) = {} => resp.status = 404

RouterErrorClasses ==
  last.req.method # "OPTIONS" =>
    /\ Durable /\ last.d # NoResp => ErrorClassOf(last.req, last.d)
    /\ Memory /\ last.m # NoResp => ErrorClassOf(last.req, last.m)

-----------------------------------------------------------------------------
(* C23. In the durable worker no request the authentication check has not   *)
(* approved reads or changes the store: it leaves the configuration record  *)
(* and the log as they were and is answered with no content of the store.   *)
(* The one exception is a forwarded LLM request, which adds its one log     *)
(* entry and nothing else.                                                  *)

\* a response that carries the configuration record, log entries or statistics
CarriesStoreContent(resp) == resp.status = 200 /\ resp.body[1] \in {"object", "array", "stats"}

AtMostOneAppended(logs0, logs1) ==
  logs1 = logs0 \/ \E e \in {Newest(logs1)} : logs1 = PushAndTrim(logs0, e)

UnapprovedCannotTouchStore ==
  [][Handled /\ Durable /\ ~verifyAdminAuth(last'.req, env) =>
       IF IsForward(last'.req)
       THEN /\ storage'.config = storage.config
            /\ storage'.logs # <<>> => AtMostOneAppended(storage.logs, storage'.logs)
       ELSE storage' = storage /\ ~CarriesStoreContent(last'.d)]_vars

-----------------------------------------------------------------------------
(* C24. Concurrent appends never lose an entry: whatever the order in which *)
(* the steps of the requests in flight are taken, the log holds one entry   *)
(* for each append that completed, up to MaxLogs (1000) of them, in the     *)
(* Durable Object and in the in-memory worker alike.                        *)

\* the requests to a route that were answered 200
Completed(key) ==
  {i \in 1..MaxCalls : calls[i].pc = "done" /\ calls[i].key = key /\ calls[i].status = 200}

\* the log holds one entry, under its own id, for each of min(n, MaxLogs) completed appends
HoldsCompleted(logs) ==
  /\ Len(logs) = Min(Cardinality(Completed("logs")), MaxLogs)
  /\ \A j \in 1..Len(logs) : \E i \in Completed("logs") : logs[j]["id"] = generateId(now, i)
  /\ \A j, k \in 1..Len(logs) : logs[j]["id"] = logs[k]["id"] => j = k

NoAppendLost ==
  /\ Durable => HoldsCompleted(storage.logs)
  /\ Memory => HoldsCompleted(memoryStorage.logs)

\* MaxCalls appends in flight together overflowed the log, and the one that arrived
\* first completed last
OverlappingAppendsOverflowed ==
  /\ variant = "durable"
  /\ Cardinality(Completed("logs")) = MaxCalls
  /\ Len(storage.logs) = MaxLogs
  /\ Newest(storage.logs)["id"] = generateId(now, 1)

-----------------------------------------------------------------------------
(* C25. Concurrent configuration writes are serialized: when writes of      *)
(* partial records with disjoint fields are in flight together and          *)
(* complete, the stored record holds the fields of each of them, whatever   *)
(* the order in which their steps are taken.                                *)

HoldsWritten(config) ==
  \A i \in Completed("config") : Contains(<<"object", config>>, calls[i].data)

NoConfigUpdateLost ==
  /\ Durable => HoldsWritten(storage.config)
  /\ Memory => HoldsWritten(memoryStorage.config)

\* two writes of different fields in flight together: the second to arrive was the
\* first to read and write the record
OverlappingWritesMerged ==
  /\ variant = "durable"
  /\ {1, 2} \subseteq Completed("config")
  /\ calls[1].data = UrlU
  /\ calls[2].data = Password
  /\ "targetApiUrl" \notin DOMAIN calls[2].local
  /\ {"targetApiUrl", "adminPassword"} \subseteq DOMAIN storage.config

-----------------------------------------------------------------------------
(* C26. With several forwarded requests in flight, their entries appear in  *)
(* the log in the order in which their upstream calls finished, not the     *)
(* order in which the requests arrived: if the upstream call of request a   *)
(* finished before that of request b, the entry of a precedes the entry of  *)
(* b in the log (as long as the log has not overflowed).                    *)

ForwardsDone == {i \in 1..MaxCalls : calls[i].key = "forward" /\ calls[i].pc = "done"}

\* the entry of request a is in the log before the entry of request b
Precedes(logs, a, b) ==
  \E j, k \in 1..Len(logs) :
    j < k /\ logs[j]["id"] = generateId(now, a) /\ logs[k]["id"] = generateId(now, b)

LogFollowsCompletion ==
  \A a, b \in ForwardsDone :
    calls[a].local < calls[b].local /\ Cardinality(ForwardsDone) <= MaxLogs =>
      /\ Durable => Precedes(storage.logs, a, b)
      /\ Memory => Precedes(memoryStorage.logs, a, b)

-----------------------------------------------------------------------------
(* C27. Every inbound request ends with one HTTP response from the          *)
(* top-level handler, whatever the upstream call, the store calls and the   *)
(* parsing of the body do: no exception escapes it, and where one is raised *)
(* in dispatch (a store call that throws, a body the storage object cannot  *)
(* parse) the response is 500 with the generic error.                       *)

IsResponse(resp) == resp.status \in 200..599 /\ resp.body[1] # "exception"

Is500(resp) == resp.status = 500 /\ resp.body = <<"error", "Internal server error">>

\* the durable worker calls the storage object for r on the way to its response
CallsStore(r) ==
  \/ DurableStoreRoute(r)
  \/ IsAdminApi(r) /\ ~IsProbe(r) /\ verifyAdminAuth(r, env)

\* handling r raises an exception in dispatch: the store call throws, or the
\* storage object rejects while it parses the body
RaisesInDispatch(r) ==
  \/ CallsStore(r) /\ env.LLM_PROXY_STORAGE = Undefined
  \/ DurableStoreRoute(r) /\ r.method = "POST" /\ ~BodyOk(r.body)

NothingEscapesFetch ==
  /\ Durable /\ last.d # NoResp =>
       /\ IsResponse(last.d)
       /\ RaisesInDispatch(last.req) => Is500(last.d)
  /\ Memory /\ last.m # NoResp => IsResponse(last.m)

\* a log submission the storage object could not parse, answered 500 beside a
\* stored record
UnparsableAnswered500 ==
  /\ variant = "durable"
  /\ IsLogSubmit(last.req)
  /\ ~BodyOk(last.req.body)
  /\ last.d.status = 500
  /\ Truthy(Get(storage.config, "targetApiUrl"))

-----------------------------------------------------------------------------
(* C28. A logging failure never changes the response: when the entry of a   *)
(* forwarded request cannot be logged (the store call throws, or the        *)
(* storage object rejects the write), the client receives the response      *)
(* forwardRequest computed: the upstream's status and body when the         *)
(* upstream answered, 502 when it could not be called.                      *)

\* the response forwardRequest computes from what the upstream did
Relayed(resp, up) ==
  IF up[1] = "response" /\ Truthy(resp.out)
  THEN resp.status = up[2] /\ resp.body = <<"upstream", up[2]>>
  ELSE Is502(resp)

LoggingFailureKeepsResponse ==
  IsForward(last.req) =>
    /\ Durable /\ last.d # NoResp => Relayed(last.d, last.up)
    /\ Memory /\ last.m # NoResp => Relayed(last.m, last.up)

\* a successful forward relayed by a deployment whose store call throws: nothing
\* was logged
RelayedWithoutStore ==
  /\ variant = "durable"
  /\ env.LLM_PROXY_STORAGE = Undefined
  /\ IsForward(last.req)
  /\ last.up = <<"response", 200>>
  /\ last.d.status = 200
  /\ storage.logs = <<>>

-----------------------------------------------------------------------------
(* C29. The stored targetApiUrl never ends with a trailing slash as seen by *)
(* callers: once a record with targetApiUrl 'U/' is written, getConfig and  *)
(* the currentTarget of getStats return the URL without the slash.          *)

NoTrailingSlash(v) == v[1] = "string" => v[3] = 0

\* the targetApiUrl a response to a config or stats read shows
ShownTarget(r, resp) ==
  IF r.method = "GET" /\ resp.status = 200 /\ resp.body[1] = "object"
  THEN Get(resp.body[2], "targetApiUrl")
  ELSE IF r.method = "GET" /\ resp.status = 200 /\ resp.body[1] = "stats"
  THEN resp.body[2].currentTarget
  ELSE Undefined

StoredUrlShownNormalized ==
  /\ Durable => NoTrailingSlash(ShownTarget(last.req, last.d))
  /\ Memory => NoTrailingSlash(ShownTarget(last.req, last.m))

-----------------------------------------------------------------------------
(* C30. Whichever source the resolver draws the target from (the header,    *)
(* the stored configuration, the static default), the target is the         *)
(* source's URL with exactly one trailing slash removed when it ends in     *)
(* '/', and the URL unchanged otherwise: 'U//' resolves to 'U/', 'E/' to    *)
(* 'E'.                                                                     *)

\* out is the string src less one trailing slash, if it has any
OneSlashOff(out, src) ==
  /\ src[1] = "string" /\ out[1] = "string"
  /\ out[2] = src[2]
  /\ out[3] = IF src[3] > 0 THEN src[3] - 1 ELSE 0

\* the static default: env.TARGET_API_URL, else the literal
StaticDefault == IF Truthy(env.TARGET_API_URL) THEN env.TARGET_API_URL ELSE DEFAULT_TARGET

NormalizedFromSource(out, r, config) ==
  IF Truthy(r.urlHeader) THEN OneSlashOff(out, r.urlHeader)
  ELSE \/ Truthy(Get(config, "targetApiUrl")) /\ OneSlashOff(out, Get(config, "targetApiUrl"))
       \/ OneSlashOff(out, StaticDefault)

ResolverStripsOneSlash ==
  IsForward(last.req) =>
    /\ Durable /\ last.d # NoResp => NormalizedFromSource(last.d.out, last.req, storage.config)
    /\ Memory /\ last.m # NoResp => NormalizedFromSource(last.m.out, last.req, memoryStorage.config)

\* a stored 'U//' resolved to 'U/' where the default ends in two slashes as well
StoredDoubleSlashResolved ==
  /\ variant = "memory"
  /\ env.TARGET_API_URL = Str("E", 2)
  /\ Get(memoryStorage.config, "targetApiUrl") = Str("U", 2)
  /\ IsForward(last.req)
  /\ last.req.urlHeader = Undefined
  /\ last.m.out = Str("U", 1)

-----------------------------------------------------------------------------
(* C31. The key and the URL are resolved independently.  A forwarded        *)
(* request that is sent upstream carries Authorization 'Bearer k', k being   *)
(* the x-target-api-key header when it has a non-empty value and otherwise   *)
(* the static default key, whichever source the URL came from; when neither  *)
(* gives a key the proxy sets nothing and the header is the inbound one.     *)
(* A field of the stored configuration never supplies the key.               *)

Bearer(k) == <<"bearer", k[2]>>

\* the key of request r, from a header that counts when `counts` says so
KeyOf(r, counts) ==
  IF counts THEN r.keyHeader ELSE env.TARGET_API_KEY

\* what a sent request carries, given whether r's key header counts
CarriesKey(resp, r, counts) ==
  resp.authorization # <<"none">> =>
    IF counts \/ env.TARGET_API_KEY # Undefined
    THEN resp.authorization = Bearer(KeyOf(r, counts))
    ELSE resp.authorization = r.auth

KeyResolvedAlone ==
  IsForward(last.req) =>
    /\ Durable => CarriesKey(last.d, last.req, Truthy(last.req.keyHeader))
    /\ Memory => CarriesKey(last.m, last.req, Truthy(last.req.keyHeader))

\* C31 as stated: the header gives the key whenever it is present, empty or not
PresentKeyHeaderWins ==
  IsForward(last.req) =>
    /\ Durable => CarriesKey(last.d, last.req, last.req.keyHeader # Undefined)
    /\ Memory => CarriesKey(last.m, last.req, last.req.keyHeader # Undefined)

\* the key came from the header while the URL came from the stored configuration,
\* which holds a field named targetApiKey, and the default key was passed over
HeaderKeyWithStoredUrl ==
  /\ variant = "memory"
  /\ IsForward(last.req)
  /\ last.req.urlHeader = Undefined
  /\ last.req.keyHeader = Str("H", 0)
  /\ env.TARGET_API_KEY = Str("K", 0)
  /\ Get(memoryStorage.config, "targetApiKey") = Str("S", 0)
  /\ last.m.out = Str("U", 0)
  /\ last.m.authorization = <<"bearer", "H">>

-----------------------------------------------------------------------------
(* C32. The id of every retained log entry is the one the server generated  *)
(* when it inserted the entry: an id field in the body of a POST on the logs *)
(* route does not decide the stored id, and no two retained entries share an *)
(* id that a caller supplied.                                                *)

\* the id of entry e is one that generateId made
IdOfServer(e) == Get(e, "id")[1] = "id"

\* the entries of logs have ids of the server's, and those that share an id do not
\* share it because a caller sent it
IdsNotOfCaller(logs) ==
  /\ \A i \in DOMAIN logs : IdOfServer(logs[i])
  /\ \A i, j \in DOMAIN logs :
       i # j /\ Get(logs[i], "id") = Get(logs[j], "id") => IdOfServer(logs[i])

EntryIdsAreServerMade ==
  /\ Durable => IdsNotOfCaller(storage.logs)
  /\ Memory => IdsNotOfCaller(memoryStorage.logs)

-----------------------------------------------------------------------------
(* C33. The successRate that either worker reports is an integer from 0 to  *)
(* 100, equal to 100 * successful / total rounded to the nearest integer     *)
(* (0 when total is 0), the successful requests counted never being more     *)
(* than the total; the counters of the in-memory worker satisfy              *)
(* 0 <= successfulRequests <= totalRequests.                                 *)

\* 100 * successful / total rounded to the nearest integer, a half rounded up
RoundedShare(successful, total) ==
  IF total = 0 THEN 0 ELSE (200 * successful + total) \div (2 * total)

\* the successRate of the response to a stats read is the rounded share of the
\* successful among the total
ReportsShare(resp, successful, total) ==
  /\ resp.body[2].successRate \in 0..100
  /\ successful <= total
  /\ resp.body[2].successRate = RoundedShare(successful, total)

SuccessRateIsRoundedShare ==
  /\ Durable /\ IsStatsRead(last.req, last.d) =>
       ReportsShare(last.d, CountSuccess(storage.logs), Len(storage.logs))
  /\ Memory /\ IsStatsRead(last.req, last.m) =>
       ReportsShare(last.m, memoryStorage.stats.successfulRequests, memoryStorage.stats.totalRequests)
  /\ Memory => /\ 0 <= memoryStorage.stats.successfulRequests
               /\ memoryStorage.stats.successfulRequests <= memoryStorage.stats.totalRequests

====
